---------------------------- MODULE Spec2Model ----------------------------
(***************************************************************************)
(* A model of the KGSF training system of CRSLab                          *)
(*   src/crslab/system/kgsf.py          KGSFSystem (step, fit, ...)        *)
(*   src/crslab/model/crs/kgsf/kgsf.py  KGSFModel  (forward, freeze, ...)  *)
(*   src/crslab/data/dataloader/tgredial.py  TGReDialDataLoader            *)
(*   src/crslab/download.py             download, build                    *)
(*                                                                         *)
(* The specifications share the variables:                                 *)
(*   Spec      one run of KGSFSystem.fit()                                 *)
(*   SpecStep  KGSFSystem.step() called with arbitrary arguments           *)
(*   SpecAug   TGReDialDataLoader.rec_process_fn() on a bounded dataset    *)
(*   SpecHist  TGReDialDataLoader._process_history() on an item sequence   *)
(*   SpecHistFair  the same, with fair random draws                        *)
(*   SpecBatch TGReDialDataLoader's batch builders on a list of records    *)
(*   SpecDecode  KGSFModel's forced, greedy and beam-search decoding       *)
(*   SpecBuild   build() called repeatedly on one path                     *)
(*   SpecDownload  one call of download()                                  *)
(* Losses are naturals; a composed loss is kept in thousandths, so that    *)
(* the weight 0.025 is the integer 25.                                     *)
(***************************************************************************)
EXTENDS Integers, Sequences, FiniteSets, TLC

VARIABLES
    pc,             \* position of the caller (fit / api / rec_process_fn)
    epoch,          \* loop variable of the running epoch loop
    batchIdx,       \* batches of the running pass already consumed
    events,         \* calls made by fit() so far, in order
    requires_grad,  \* module name -> whether its parameters are trainable
    optimizer,      \* optimizer options of the last init_optim ("none" before)
    rec_metrics,    \* evaluator.rec_metrics since the last reset_metrics
    best_valid,     \* early-stopping policy: best metric so far
    drop_cnt,       \* early-stopping policy: epochs without improvement
    submitted,      \* metric handed to the last early_stop call
    last,           \* what the most recent step() call of an outside caller did
    heap,           \* object id -> conversation dict
    dataset,        \* self.dataset: sequence of object ids
    dataset0,       \* the dataset's dicts when rec_process_fn was called
    augment_dataset,\* the list rec_process_fn builds: sequence of object ids
    ci,             \* rec_process_fn: index of conv_dict in self.dataset
    mi,             \* rec_process_fn: index of movie in conv_dict['items']
    context_items,  \* _process_history: the item sequence it was called on
    input_ids,      \* _process_history: the truncated item sequence
    sample_negs,    \* _process_history: negative samples appended so far
    item,           \* _neg_sample: the id drawn last (None outside a call)
    records,        \* the conversation records a batch is built from
    records0,       \* those records as the dataset first held them
    arg,            \* the records as the last batch builder found them
    ret,            \* what the last batch builder returned
    builds,         \* batch builders called so far
    pad_tail_default, \* the side padded_tensor pads when pad_tail is not given
    batch_size,     \* decoding: rows of the batch being decoded
    beam,           \* decoding: the beam argument of the beam search
    truth,          \* decoding: batch['response'], the ground truth (forced)
    inputs,         \* decoding: the decoder input tensor `inputs`
    steps,          \* decoding: iterations of the decoding loop entered
    sequences,      \* decoding: the candidates the beam search holds
    decoded,        \* decoding: what the last call gave back
    marker,         \* build: the lines of dpath/.built (<<>>: no such file)
    outfile,        \* build: the file dpath/file_name ("absent" when none)
    marked_with,    \* build: the version of the last mark_done still on disk
    built,          \* build: what the last build() call did
    n_builds,       \* build: build() calls so far
    retry,          \* download: retries left
    resp,           \* download: what the local `response` is bound to
    done,           \* download: bytes written by the last write_chunks
    total_size,     \* download: the announced Content-Length
    attempts,       \* download: iterations of the while loop entered
    outcome         \* download: how the call ended ("running" before)

sysVars == <<pc, epoch, batchIdx, events, requires_grad, optimizer,
             rec_metrics, best_valid, drop_cnt, submitted, last>>
augVars == <<heap, dataset, dataset0, augment_dataset, ci, mi>>
histVars == <<context_items, input_ids, sample_negs, item>>
batchVars == <<records, records0, arg, ret, builds, pad_tail_default>>
decVars == <<batch_size, beam, truth, inputs, steps, sequences, decoded>>
buildVars == <<marker, outfile, marked_with, built, n_builds>>
downloadVars == <<retry, resp, done, total_size, attempts, outcome>>
extVars == <<decVars, buildVars, downloadVars>>
dlVars == <<histVars, batchVars, extVars>>
vars == <<sysVars, augVars, dlVars>>

\* Python's None where a number is expected
None == 0 - 1

(***************************************************************************)
(* Bounds and program constants                                            *)
(***************************************************************************)
PretrainEpoch == 1      \* opt['pretrain']['epoch']
RecEpoch == 3           \* opt['rec']['epoch']
ConvEpoch == 1          \* opt['conv']['epoch']
NumBatches == 2         \* batches a dataloader yields per pass
MaxLoss == 1            \* loss values are 0..MaxLoss
Impatience == 1         \* patience of the early-stopping policy
MaxApiEvals == 2        \* SpecStep: rec_evaluate calls between two resets
MaxConvs == 2           \* SpecAug: conversations in the dataset
MaxItems == 2           \* SpecAug: items mentioned in one conversation
NEntity == 3            \* vocab['n_entity']
ItemTruncate == 2       \* opt['item_truncate']
MaxHistory == 3         \* SpecHist: length of the item sequence handed in
ContextTruncate == 5    \* opt['context_truncate']
ResponseTruncate == 3   \* opt['response_truncate']
EntityTruncate == 2     \* opt['entity_truncate']
WordTruncate == 2       \* opt['word_truncate']
MaxLen == 3             \* SpecBatch: length of a record's id and token lists
MaxBuilds == 2          \* SpecBatch: batch builder calls on the same records

TopK == 50              \* torch.topk(rec_predict, 50)
InfoLossWeightMilli == 25   \* 0.025, in thousandths

EntityIds == {1, 2}
Rows == {1}
LossVals == 0..MaxLoss
RankVals == {0, TopK - 1, TopK}
Stages == {"pretrain", "rec", "conv"}
StageTags == Stages \cup {"policy"}
Modes == {"train", "val", "test"}

(***************************************************************************)
(* KGSFModel: parameters                                                   *)
(***************************************************************************)
\* the parameter-owning modules build_model creates
Modules ==
    {"token_embedding", "word_kg_embedding",
     "entity_encoder", "entity_self_attn", "word_encoder", "word_self_attn",
     "gate_layer", "infomax_norm", "infomax_bias", "rec_bias",
     "conv_encoder", "conv_entity_norm", "conv_entity_attn_norm",
     "conv_word_norm", "conv_word_attn_norm", "copy_norm", "copy_output",
     "conv_decoder"}

\* freeze_parameters with the token embedding added to the list
freeze_models_all_embeddings ==
    {"token_embedding", "word_kg_embedding", "entity_encoder",
     "entity_self_attn", "word_encoder", "word_self_attn", "gate_layer",
     "infomax_bias", "infomax_norm", "rec_bias"}

freeze_models ==
    {"word_kg_embedding", "entity_encoder", "entity_self_attn",
     "word_encoder", "word_self_attn", "gate_layer", "infomax_bias",
     "infomax_norm", "rec_bias"}

freeze_parameters(rg) ==
    [m \in Modules |-> IF m \in freeze_models THEN FALSE ELSE rg[m]]

\* the modules whose parameters each forward mode reads
ForwardUses(stage) ==
    CASE stage = "pretrain" ->
            {"entity_encoder", "word_encoder", "word_kg_embedding",
             "word_self_attn", "infomax_norm", "infomax_bias"}
      [] stage = "rec" ->
            {"entity_encoder", "word_encoder", "word_kg_embedding",
             "entity_self_attn", "word_self_attn", "gate_layer", "rec_bias",
             "infomax_norm", "infomax_bias"}
      [] stage = "conv" ->
            {"entity_encoder", "word_encoder", "word_kg_embedding",
             "entity_self_attn", "word_self_attn", "conv_encoder",
             "conv_entity_attn_norm", "conv_word_attn_norm",
             "conv_entity_norm", "conv_word_norm", "conv_decoder",
             "copy_norm", "copy_output", "token_embedding"}
      [] OTHER -> {}


(***************************************************************************)
(* Batches and the network's outputs                                       *)
(***************************************************************************)
\* multi-hot entity-label matrices (batch_size, n_entity)
LabelMatrices == [Rows -> [EntityIds -> {0, 1}]]

\* a batch: the entity labels (pretrain: entity_labels, rec: entities)
Batches == [entity_labels : LabelMatrices]

RECURSIVE SumOver(_, _)
SumOver(f, S) ==
    IF S = {} THEN 0
    ELSE LET x == CHOOSE y \in S : TRUE
         IN f[x] + SumOver(f, S \ {x})

\* torch.sum over the whole matrix
TorchSum(mat) ==
    SumOver([r \in DOMAIN mat |-> SumOver(mat[r], DOMAIN mat[r])], DOMAIN mat)

\* the values the network computes for a batch: the three loss values and,
\* per example, the position of the true item in the ranking of rec_scores
NetOut(stage, mode) ==
    [info  : IF stage \in {"pretrain", "rec"} THEN LossVals ELSE {0},
     rec   : IF stage = "rec" THEN LossVals ELSE {0},
     gen   : IF stage = "conv" /\ mode # "test" THEN LossVals ELSE {0},
     ranks : IF stage = "rec" /\ mode # "train"
                THEN [Rows -> RankVals] ELSE [Rows -> {0}]]

\* pretrain_infomax that returns a loss for every batch
pretrain_infomax_noskip(batch, out) == out.info

pretrain_infomax(batch, out) ==
    LET loss_mask == TorchSum(batch.entity_labels)
    IN IF loss_mask = 0 THEN None ELSE out.info

recommend(batch, out) ==
    LET info_loss_mask == TorchSum(batch.entity_labels)
    IN [rec_loss   |-> out.rec,
        info_loss  |-> IF info_loss_mask = 0 THEN None ELSE out.info,
        rec_scores |-> out.ranks]

converse(mode, out) ==
    IF mode # "test"
        THEN [loss |-> out.gen, preds |-> "forced"]
        ELSE [loss |-> None, preds |-> "greedy"]

\* Python's truth value of an optional zero-dimensional tensor
Truthy(x) == x # None /\ x # 0

(***************************************************************************)
(* KGSFSystem.step and its handlers: what one call does                    *)
(***************************************************************************)
NoRanks == <<>>

\* a call that has done nothing yet
StepResult(batch, stage, mode) ==
    [stage |-> stage, mode |-> mode, batch |-> batch,
     raised |-> "none",     \* exception the call ends with
     forward |-> FALSE,     \* model.forward was called
     backward |-> FALSE,    \* self.backward was called
     loss |-> None,         \* the loss given to backward, in thousandths
     reg_term |-> FALSE,    \* that loss holds the 0.025 * info_loss term
     rec_loss |-> None,     \* the rec_loss the model returned
     info_loss |-> None,    \* the info_loss the model returned
     metrics |-> <<>>,      \* optim_metrics.add / gen_metrics.add calls
     evaluated |-> "none",  \* rec_evaluate / conv_evaluate was called
     ranks |-> NoRanks]     \* the ranks rec_evaluate was given

handle_pretrain_stage(batch, mode, out) ==
    LET info_loss == pretrain_infomax(batch, out)
        r == [StepResult(batch, "pretrain", mode) EXCEPT
                !.forward = TRUE, !.info_loss = info_loss]
    IN IF info_loss # None
          THEN [r EXCEPT !.backward = TRUE, !.loss = 1000 * info_loss,
                         !.metrics = << <<"info_loss", info_loss>> >>]
          ELSE r

handle_rec_stage(batch, mode, out) ==
    LET o == recommend(batch, out)
        withReg == Truthy(o.info_loss)
        loss == 1000 * o.rec_loss
                + (IF withReg THEN InfoLossWeightMilli * o.info_loss ELSE 0)
        r0 == [StepResult(batch, "rec", mode) EXCEPT
                !.forward = TRUE, !.rec_loss = o.rec_loss,
                !.info_loss = o.info_loss,
                !.loss = loss, !.reg_term = withReg]
        r1 == IF mode = "train"
                 THEN [r0 EXCEPT !.backward = TRUE]
                 ELSE [r0 EXCEPT !.evaluated = "rec", !.ranks = o.rec_scores]
        m1 == << <<"rec_loss", o.rec_loss>> >>
    IN [r1 EXCEPT !.metrics =
            IF Truthy(o.info_loss)
               THEN Append(m1, <<"info_loss", o.info_loss>>) ELSE m1]

handle_conv_stage(batch, mode, out) ==
    LET o == converse(mode, out)
        r == [StepResult(batch, "conv", mode) EXCEPT !.forward = TRUE]
    IN IF mode = "test"
          THEN [r EXCEPT !.evaluated = "conv"]
          ELSE [(IF mode = "train"
                    THEN [r EXCEPT !.backward = TRUE, !.loss = 1000 * o.loss]
                    ELSE [r EXCEPT !.evaluated = "conv"])
                EXCEPT !.metrics = << <<"gen_loss", o.loss>>,
                                      <<"ppl", o.loss>> >>]

\* step that treats an unknown stage tag as a conversation batch
step_fallthrough(batch, stage, mode, out) ==
    IF stage = "pretrain" THEN handle_pretrain_stage(batch, mode, out)
    ELSE IF stage = "rec" THEN handle_rec_stage(batch, mode, out)
    ELSE [handle_conv_stage(batch, mode, out) EXCEPT !.stage = stage]

step(batch, stage, mode, out) ==
    IF stage = "pretrain" THEN handle_pretrain_stage(batch, mode, out)
    ELSE IF stage = "rec" THEN handle_rec_stage(batch, mode, out)
    ELSE IF stage = "conv" THEN handle_conv_stage(batch, mode, out)
    ELSE [StepResult(batch, stage, mode) EXCEPT !.raised = "ValueError"]

(***************************************************************************)
(* The evaluator and the early-stopping policy                             *)
(***************************************************************************)
NoMetrics == [hit1 |-> 0, hit50 |-> 0, n |-> 0]

RECURSIVE CountBelow(_, _, _)
CountBelow(ranks, S, k) ==
    IF S = {} THEN 0
    ELSE LET x == CHOOSE y \in S : TRUE
         IN (IF ranks[x] < k THEN 1 ELSE 0) + CountBelow(ranks, S \ {x}, k)

\* KGSFSystem.rec_evaluate: one evaluator.rec_evaluate call per example
rec_evaluate(m, ranks) ==
    [hit1  |-> m.hit1 + CountBelow(ranks, DOMAIN ranks, 1),
     hit50 |-> m.hit50 + CountBelow(ranks, DOMAIN ranks, TopK),
     n     |-> m.n + Cardinality(DOMAIN ranks)]

\* the evaluator after a step
Evaluate(m, r) == IF r.evaluated = "rec" THEN rec_evaluate(m, r.ranks) ELSE m

\* train_recommender: the scalar given to early_stop
MonitoredMetric(m) == m.hit1 + m.hit50

\* the policy's verdict on a metric: it improves on the best one or not
Improves(metric) == best_valid = None \/ metric > best_valid

EarlyStopVerdict(metric) ==
    ~Improves(metric) /\ drop_cnt + 1 >= Impatience

(***************************************************************************)
(* KGSFSystem.fit: pretrain, train_recommender, train_conversation         *)
(***************************************************************************)
Ev(kind, stage, mode) == [kind |-> kind, stage |-> stage, mode |-> mode]

\* fit that trains the conversation before the recommender
NextStageAfter_conv_first(stage) ==
    CASE stage = "pretrain" -> "conv"
      [] stage = "conv" -> "rec"
      [] OTHER -> "done"

\* fit: the phase that follows each phase
NextStageAfter(stage) ==
    CASE stage = "pretrain" -> "rec"
      [] stage = "rec" -> "conv"
      [] OTHER -> "done"

\* one self.step(batch, stage, mode) of a pass over a dataloader
DoStep(stage, mode) ==
    /\ batchIdx < NumBatches
    /\ \E batch \in Batches, out \in NetOut(stage, mode) :
          rec_metrics' = Evaluate(rec_metrics, step(batch, stage, mode, out))
    /\ batchIdx' = batchIdx + 1
    /\ events' = Append(events, Ev("step", stage, mode))
    /\ UNCHANGED <<pc, epoch, requires_grad, optimizer, best_valid, drop_cnt,
                   submitted, last, augVars, dlVars>>

\* self.init_optim(...) at the head of a phase
InitOptim(stage, rg) ==
    /\ pc = <<stage, "init">>
    /\ requires_grad' = rg
    /\ optimizer' = stage
    /\ epoch' = 0
    /\ pc' = <<stage, "epoch">>
    /\ UNCHANGED <<batchIdx, rec_metrics, best_valid, drop_cnt, submitted,
                   last, augVars, dlVars>>

\* the head of an epoch: evaluator.reset_metrics(), then the training pass
EpochBegin(stage, nEpoch) ==
    /\ pc = <<stage, "epoch">>
    /\ epoch < nEpoch
    /\ rec_metrics' = NoMetrics
    /\ batchIdx' = 0
    /\ events' = Append(events, Ev("reset", stage, "train"))
    /\ pc' = <<stage, "train">>
    /\ UNCHANGED <<epoch, requires_grad, optimizer, best_valid, drop_cnt,
                   submitted, last, augVars, dlVars>>

\* a validation pass that starts without reset_metrics()
TrainReport_no_reset(stage) ==
    /\ pc = <<stage, "train">>
    /\ batchIdx = NumBatches
    /\ batchIdx' = 0
    /\ events' = Append(events, Ev("report", stage, "train"))
    /\ pc' = <<stage, "val">>
    /\ UNCHANGED <<epoch, requires_grad, optimizer, rec_metrics, best_valid,
                   drop_cnt, submitted, last, augVars, dlVars>>

\* report(mode='train'), then reset_metrics() for the validation pass
TrainReport(stage) ==
    /\ pc = <<stage, "train">>
    /\ batchIdx = NumBatches
    /\ rec_metrics' = NoMetrics
    /\ batchIdx' = 0
    /\ events' = events \o <<Ev("report", stage, "train"),
                             Ev("reset", stage, "val")>>
    /\ pc' = <<stage, "val">>
    /\ UNCHANGED <<epoch, requires_grad, optimizer, best_valid, drop_cnt,
                   submitted, last, augVars, dlVars>>

\* the epoch loop is left (range exhausted or break): reset_metrics() for
\* the test pass
TestBegin(stage) ==
    /\ pc = <<stage, "test_begin">>
    /\ rec_metrics' = NoMetrics
    /\ batchIdx' = 0
    /\ events' = Append(events, Ev("reset", stage, "test"))
    /\ pc' = <<stage, "test">>
    /\ UNCHANGED <<epoch, requires_grad, optimizer, best_valid, drop_cnt,
                   submitted, last, augVars, dlVars>>

\* report(mode='test'); the phase returns to fit
TestReport(stage) ==
    /\ pc = <<stage, "test">>
    /\ batchIdx = NumBatches
    /\ events' = Append(events, Ev("report", stage, "test"))
    /\ pc' = <<NextStageAfter(stage), "init">>
    /\ UNCHANGED <<epoch, batchIdx, requires_grad, optimizer, rec_metrics,
                   best_valid, drop_cnt, submitted, last, augVars, dlVars>>

LoopExit(stage, nEpoch) ==
    /\ pc = <<stage, "epoch">>
    /\ epoch = nEpoch
    /\ pc' = <<stage, "test_begin">>
    /\ UNCHANGED <<epoch, batchIdx, events, requires_grad, optimizer,
                   rec_metrics, best_valid, drop_cnt, submitted, last, augVars, dlVars>>

---------------------------------------------------------------------------
PretrainInit ==
    /\ InitOptim("pretrain", requires_grad)
    /\ events' = Append(events, Ev("init_optim", "pretrain", "-"))

PretrainEpochBegin == EpochBegin("pretrain", PretrainEpoch)

PretrainStep == pc = <<"pretrain", "train">> /\ DoStep("pretrain", "train")

\* evaluator.report() closes the epoch
PretrainReport ==
    /\ pc = <<"pretrain", "train">>
    /\ batchIdx = NumBatches
    /\ events' = Append(events, Ev("report", "pretrain", "train"))
    /\ epoch' = epoch + 1
    /\ pc' = <<"pretrain", "epoch">>
    /\ UNCHANGED <<batchIdx, requires_grad, optimizer, rec_metrics, best_valid,
                   drop_cnt, submitted, last, augVars, dlVars>>

PretrainReturn ==
    /\ pc = <<"pretrain", "epoch">>
    /\ epoch = PretrainEpoch
    /\ pc' = <<NextStageAfter("pretrain"), "init">>
    /\ UNCHANGED <<epoch, batchIdx, events, requires_grad, optimizer,
                   rec_metrics, best_valid, drop_cnt, submitted, last, augVars, dlVars>>

---------------------------------------------------------------------------
RecInit ==
    /\ InitOptim("rec", requires_grad)
    /\ events' = Append(events, Ev("init_optim", "rec", "-"))

RecEpochBegin == EpochBegin("rec", RecEpoch)

RecTrainStep == pc = <<"rec", "train">> /\ DoStep("rec", "train")

RecTrainReport == TrainReport("rec")

RecValStep == pc = <<"rec", "val">> /\ DoStep("rec", "val")

\* train_recommender that goes on after the policy says stop
RecAfterEarlyStop_no_break(stop) == <<"rec", "epoch">>

\* where train_recommender goes after early_stop(metric)
RecAfterEarlyStop(stop) ==
    IF stop THEN <<"rec", "test_begin">> ELSE <<"rec", "epoch">>

\* report(mode='val'), the monitored metric, early_stop(metric), break
RecValReport ==
    /\ pc = <<"rec", "val">>
    /\ batchIdx = NumBatches
    /\ LET metric == MonitoredMetric(rec_metrics)
           stop == EarlyStopVerdict(metric)
       IN /\ submitted' = metric
          /\ best_valid' = IF Improves(metric) THEN metric ELSE best_valid
          /\ drop_cnt' = IF Improves(metric) THEN 0 ELSE drop_cnt + 1
          /\ events' = events \o
                <<Ev("report", "rec", "val"),
                  Ev("early_stop", "rec", IF stop THEN "stop" ELSE "go")>>
          /\ pc' = RecAfterEarlyStop(stop)
    /\ epoch' = epoch + 1
    /\ UNCHANGED <<batchIdx, requires_grad, optimizer, rec_metrics, last,
                   augVars, dlVars>>

RecLoopExit == LoopExit("rec", RecEpoch)

RecTestBegin == TestBegin("rec")

RecTestStep == pc = <<"rec", "test">> /\ DoStep("rec", "test")

RecTestReport == TestReport("rec")

---------------------------------------------------------------------------
\* train_conversation that builds the optimizer before freezing
ConvInit_optim_first ==
    /\ InitOptim("conv", freeze_parameters(requires_grad))
    /\ events' = events \o <<Ev("init_optim", "conv", "-"),
                             Ev("freeze", "conv", "-")>>

\* freeze_parameters() (on the model or on model.module), then init_optim
ConvInit ==
    /\ InitOptim("conv", freeze_parameters(requires_grad))
    /\ events' = events \o <<Ev("freeze", "conv", "-"),
                             Ev("init_optim", "conv", "-")>>

ConvEpochBegin == EpochBegin("conv", ConvEpoch)

ConvTrainStep == pc = <<"conv", "train">> /\ DoStep("conv", "train")

ConvTrainReport == TrainReport("conv")

ConvValStep == pc = <<"conv", "val">> /\ DoStep("conv", "val")

\* report(mode='val') closes the epoch: no early stopping here
ConvValReport ==
    /\ pc = <<"conv", "val">>
    /\ batchIdx = NumBatches
    /\ events' = Append(events, Ev("report", "conv", "val"))
    /\ epoch' = epoch + 1
    /\ pc' = <<"conv", "epoch">>
    /\ UNCHANGED <<batchIdx, requires_grad, optimizer, rec_metrics, best_valid,
                   drop_cnt, submitted, last, augVars, dlVars>>

ConvLoopExit == LoopExit("conv", ConvEpoch)

ConvTestBegin == TestBegin("conv")

ConvTestStep == pc = <<"conv", "test">> /\ DoStep("conv", "test")

ConvTestReport == TestReport("conv")

---------------------------------------------------------------------------
\* the system after construction: all parameters trainable, no optimizer
InitSystem ==
    /\ epoch = 0
    /\ batchIdx = 0
    /\ events = <<>>
    /\ requires_grad = [m \in Modules |-> TRUE]
    /\ optimizer = "none"
    /\ rec_metrics = NoMetrics
    /\ best_valid = None
    /\ drop_cnt = 0
    /\ submitted = None
    /\ last = StepResult([entity_labels |-> [r \in Rows |-> [e \in EntityIds |-> 0]]],
                         "none", "none")

\* no rec_process_fn call is under way
AugIdle ==
    /\ heap = <<>>
    /\ dataset = <<>>
    /\ dataset0 = <<>>
    /\ augment_dataset = <<>>
    /\ ci = 0
    /\ mi = 0

\* no _process_history call is under way
HistIdle ==
    /\ context_items = <<>>
    /\ input_ids = <<>>
    /\ sample_negs = <<>>
    /\ item = None

\* no batch has been asked for
BatchIdle ==
    /\ records = <<>>
    /\ records0 = <<>>
    /\ arg = <<>>
    /\ ret = [kind |-> "none"]
    /\ builds = 0
    /\ pad_tail_default = TRUE

\* no decoding call is under way
DecIdle ==
    /\ batch_size = 0
    /\ beam = 0
    /\ truth = <<>>
    /\ inputs = <<>>
    /\ steps = 0
    /\ sequences = <<>>
    /\ decoded = [kind |-> "none"]

\* nothing has been built or downloaded
FilesIdle ==
    /\ marker = <<>>
    /\ outfile = "absent"
    /\ marked_with = "never"
    /\ built = [kind |-> "none"]
    /\ n_builds = 0
    /\ retry = 0
    /\ resp = "unbound"
    /\ done = None
    /\ total_size = None
    /\ attempts = 0
    /\ outcome = "idle"

ExtIdle == DecIdle /\ FilesIdle

\* the data loader builds nothing
DlIdle == HistIdle /\ BatchIdle /\ ExtIdle

\* fit() is called: self.pretrain() comes first
Init ==
    /\ pc = <<"pretrain", "init">>
    /\ InitSystem
    /\ AugIdle
    /\ DlIdle

Next ==
    \/ PretrainInit \/ PretrainEpochBegin \/ PretrainStep \/ PretrainReport
    \/ PretrainReturn
    \/ RecInit \/ RecEpochBegin \/ RecTrainStep \/ RecTrainReport
    \/ RecValStep \/ RecValReport \/ RecLoopExit \/ RecTestBegin
    \/ RecTestStep \/ RecTestReport
    \/ ConvInit \/ ConvEpochBegin \/ ConvTrainStep \/ ConvTrainReport
    \/ ConvValStep \/ ConvValReport \/ ConvLoopExit \/ ConvTestBegin
    \/ ConvTestStep \/ ConvTestReport

Spec == Init /\ [][Next]_vars

(***************************************************************************)
(* step() called from outside fit, with any stage tag, mode and batch      *)
(***************************************************************************)
ApiStep ==
    /\ pc = <<"api", "idle">>
    /\ rec_metrics.n < MaxApiEvals
    /\ \E stage \in StageTags, mode \in Modes, batch \in Batches :
         \E out \in NetOut(stage, mode) :
            LET r == step(batch, stage, mode, out)
            IN /\ last' = r
               /\ rec_metrics' = Evaluate(rec_metrics, r)
    /\ UNCHANGED <<pc, epoch, batchIdx, events, requires_grad, optimizer,
                   best_valid, drop_cnt, submitted, augVars, dlVars>>

\* evaluator.reset_metrics()
ApiReset ==
    /\ pc = <<"api", "idle">>
    /\ rec_metrics # NoMetrics
    /\ rec_metrics' = NoMetrics
    /\ UNCHANGED <<pc, epoch, batchIdx, events, requires_grad, optimizer,
                   best_valid, drop_cnt, submitted, last, augVars, dlVars>>

InitStep ==
    /\ pc = <<"api", "idle">>
    /\ InitSystem
    /\ AugIdle
    /\ DlIdle

NextStep == ApiStep \/ ApiReset

SpecStep == InitStep /\ [][NextStep]_vars

(***************************************************************************)
(* Properties of fit()                                                     *)
(***************************************************************************)
StageRank(stage) ==
    CASE stage = "pretrain" -> 1 [] stage = "rec" -> 2 [] stage = "conv" -> 3
      [] OTHER -> 0

StepIdx == {i \in 1..Len(events) : events[i].kind = "step"}
IdxOf(e) == {i \in 1..Len(events) : events[i] = e}
FitDone == pc = <<"done", "init">>
Frozen == IdxOf(Ev("freeze", "conv", "-")) # {}

\* C1: fit() runs PRETRAIN, RECOMMEND, CONVERSE in this order, each once:
\* no step of an earlier stage follows a step of a later stage, no phase is
\* entered twice, and a finished fit() has entered each phase exactly once.
C1_StagesInOrder ==
    /\ \A i \in StepIdx, j \in StepIdx :
          i < j => StageRank(events[i].stage) <= StageRank(events[j].stage)
    /\ \A st \in Stages : Cardinality(IdxOf(Ev("init_optim", st, "-"))) <= 1
    /\ FitDone =>
          \A st \in Stages : Cardinality(IdxOf(Ev("init_optim", st, "-"))) = 1

C1_Witness ==
    /\ FitDone
    /\ \A st \in Stages : \E i \in StepIdx : events[i].stage = st

\* C2: freeze_parameters comes before the conversation optimizer is
\* initialised and before the first 'conv' step, and from then on every
\* parameter it froze stays non-trainable.
C2_FreezeBeforeConv ==
    /\ \A i \in 1..Len(events) :
          (events[i] = Ev("init_optim", "conv", "-")
              \/ (events[i].kind = "step" /\ events[i].stage = "conv"))
          => \E j \in 1..(i - 1) : events[j] = Ev("freeze", "conv", "-")
    /\ optimizer = "conv" => Frozen
    /\ Frozen => \A m \in freeze_models : ~requires_grad[m]

C2_Witness ==
    /\ FitDone
    /\ \E i \in StepIdx : events[i] = Ev("step", "conv", "train")

\* the partitions as the claim C3 lists them
ClaimedSharedAndRec ==
    {"token_embedding", "word_kg_embedding", "entity_encoder", "word_encoder",
     "entity_self_attn", "word_self_attn", "gate_layer", "infomax_norm",
     "infomax_bias", "rec_bias"}
ClaimedConvOnly ==
    {"conv_encoder", "conv_decoder", "copy_norm", "copy_output",
     "conv_entity_norm", "conv_entity_attn_norm", "conv_word_norm",
     "conv_word_attn_norm"}

\* the modules only the conversation forward reads
ConvOnlyModules ==
    ForwardUses("conv") \ (ForwardUses("pretrain") \cup ForwardUses("rec"))

\* C3 as stated: after freeze_parameters everything shared (the token
\* embedding included) and the recommendation head are non-trainable, and
\* only conversation encoder, decoder, copy heads and projections are.
C3_Original ==
    Frozen =>
        /\ \A m \in ClaimedSharedAndRec : ~requires_grad[m]
        /\ \A m \in Modules : requires_grad[m] => m \in ClaimedConvOnly

\* C3 amended: after freeze_parameters the non-trainable parameters are
\* exactly those a pretrain or rec forward reads (word KG embedding, graph
\* encoders, attention pooling, gate, infomax head, recommendation bias);
\* the token embedding stays trainable with the conversation-only modules.
C3_FrozenPartition ==
    Frozen =>
        /\ \A m \in Modules :
              requires_grad[m] <=> m \in ConvOnlyModules
        /\ ConvOnlyModules = ClaimedConvOnly \cup {"token_embedding"}
        /\ \A m \in ClaimedSharedAndRec \ {"token_embedding"} :
              ~requires_grad[m]

C3_Witness ==
    /\ Frozen
    /\ requires_grad["token_embedding"]
    /\ ~requires_grad["rec_bias"]

\* C8: the scalar given to early_stop after a validation epoch is hit@1 +
\* hit@50 of that validation pass, and once the policy says stop no further
\* 'rec' training or validation step is executed.
C8_EarlyStop ==
    /\ (Len(events) > 0 /\ events[Len(events)].kind = "early_stop")
          => submitted = rec_metrics.hit1 + rec_metrics.hit50
    /\ \A i \in 1..Len(events) :
          events[i] = Ev("report", "rec", "val")
          => i < Len(events) /\ events[i + 1].kind = "early_stop"
    /\ \A i \in IdxOf(Ev("early_stop", "rec", "stop")) :
          \A j \in StepIdx :
             j > i => ~(events[j].stage = "rec"
                        /\ events[j].mode \in {"train", "val"})

\* the policy stopped train_recommender before its last epoch
C8_Witness ==
    /\ IdxOf(Ev("early_stop", "rec", "stop")) # {}
    /\ Cardinality(IdxOf(Ev("report", "rec", "val"))) < RecEpoch
    /\ IdxOf(Ev("report", "rec", "test")) # {}
    /\ submitted > 0

RECURSIVE Repeat(_, _)
Repeat(seq, n) == IF n = 0 THEN <<>> ELSE seq \o Repeat(seq, n - 1)

\* one pass: reset_metrics, a step per batch, report
Pass(stage, mode) ==
    <<Ev("reset", stage, mode)>> \o Repeat(<<Ev("step", stage, mode)>>, NumBatches)
        \o <<Ev("report", stage, mode)>>

RecEpochEvents(verdict) ==
    Pass("rec", "train") \o Pass("rec", "val")
        \o <<Ev("early_stop", "rec", verdict)>>

\* the calls of a fit() whose recommender ran k epochs, the last early_stop
\* call answering verdict
ExpectedEvents(k, verdict) ==
    <<Ev("init_optim", "pretrain", "-")>>
        \o Repeat(Pass("pretrain", "train"), PretrainEpoch)
        \o <<Ev("init_optim", "rec", "-")>>
        \o Repeat(RecEpochEvents("go"), k - 1) \o RecEpochEvents(verdict)
        \o Pass("rec", "test")
        \o <<Ev("freeze", "conv", "-"), Ev("init_optim", "conv", "-")>>
        \o Repeat(Pass("conv", "train") \o Pass("conv", "val"), ConvEpoch)
        \o Pass("conv", "test")

IsPrefix(a, b) == Len(a) <= Len(b) /\ SubSeq(b, 1, Len(a)) = a

Called == last.stage # "none"
NoLabel(batch) ==
    \A r \in DOMAIN batch.entity_labels :
        \A e \in DOMAIN batch.entity_labels[r] : batch.entity_labels[r][e] = 0
MetricCount(r, name) ==
    Cardinality({i \in 1..Len(r.metrics) : r.metrics[i][1] = name})

\* C4: step with a stage tag other than 'pretrain', 'rec', 'conv' ends with
\* ValueError, and that call does no forward, no gradient update and
\* records no metric.
C4_InvalidStageRaises ==
    (Called /\ last.stage \notin Stages) =>
        /\ last.raised = "ValueError"
        /\ ~last.forward
        /\ ~last.backward
        /\ last.metrics = <<>>
        /\ last.evaluated = "none"

C4_Witness ==
    /\ last.stage = "policy"
    /\ last.raised = "ValueError"

\* C5 as stated: whatever the stage tag, only a step with mode 'train'
\* performs a gradient update.
C5_BackwardOnlyInTrain ==
    (Called /\ last.backward) => last.mode = "train"

\* C6: a pretrain step on a batch without entity label is skipped (the model
\* returns no loss, no gradient update, no 'info_loss' metric); with at
\* least one label it does one gradient update and records one 'info_loss'.
C6_PretrainSkip ==
    last.stage = "pretrain" =>
        IF NoLabel(last.batch)
           THEN /\ last.info_loss = None
                /\ ~last.backward
                /\ MetricCount(last, "info_loss") = 0
           ELSE /\ last.info_loss # None
                /\ last.backward
                /\ last.loss = 1000 * last.info_loss
                /\ MetricCount(last, "info_loss") = 1

C6_Witness ==
    /\ last.stage = "pretrain"
    /\ last.forward
    /\ NoLabel(last.batch)
    /\ ~last.backward

\* C7 as stated: the rec loss holds the 0.025 * info_loss term exactly when
\* the batch mentions an entity, whatever the value of info_loss (0 too),
\* and is the recommendation cross-entropy alone exactly when it does not.
C7_RegTermIffLabel ==
    last.stage = "rec" =>
        IF NoLabel(last.batch)
           THEN ~last.reg_term /\ last.loss = 1000 * last.rec_loss
           ELSE /\ last.reg_term
                /\ last.loss = 1000 * last.rec_loss
                               + InfoLossWeightMilli * last.info_loss

(***************************************************************************)
(* TGReDialDataLoader.rec_process_fn                                       *)
(* Dicts live on a heap so that a copy and its original are two objects.   *)
(***************************************************************************)
ItemIds == {1, 2}
ItemLists == UNION {[1..k -> ItemIds] : k \in 0..MaxItems}

\* d[k] = v on a dict
SetKey(d, k, v) == [x \in DOMAIN d \cup {k} |-> IF x = k THEN v ELSE d[x]]

\* a "copy" that is the same object
deepcopy_alias(h, ref) == [heap |-> h, ref |-> ref]

\* deepcopy(conv_dict): a new object with equal content
deepcopy(h, ref) == [heap |-> Append(h, h[ref]), ref |-> Len(h) + 1]

\* rec_process_fn is called on a dataset of 1..MaxConvs conversations
InitAug ==
    /\ pc = <<"aug", "loop">>
    /\ InitSystem
    /\ \E n \in 1..MaxConvs : \E its \in [1..n -> ItemLists] :
          /\ heap = [i \in 1..n |->
                        [context_tokens |-> <<i>>, items |-> its[i]]]
          /\ dataset = [i \in 1..n |-> i]
    /\ dataset0 = heap
    /\ augment_dataset = <<>>
    /\ ci = 1
    /\ mi = 1
    /\ DlIdle

\* one turn of the inner loop: copy, set 'item', append
AugExpand ==
    /\ pc = <<"aug", "loop">>
    /\ ci <= Len(dataset)
    /\ mi <= Len(heap[dataset[ci]].items)
    /\ LET movie == heap[dataset[ci]].items[mi]
           c == deepcopy(heap, dataset[ci])
       IN /\ heap' = [c.heap EXCEPT ![c.ref] = SetKey(@, "item", movie)]
          /\ augment_dataset' = Append(augment_dataset, c.ref)
    /\ mi' = mi + 1
    /\ UNCHANGED <<sysVars, dlVars, dataset, dataset0, ci>>

\* the inner loop is exhausted: next conv_dict
AugNextConv ==
    /\ pc = <<"aug", "loop">>
    /\ ci <= Len(dataset)
    /\ mi > Len(heap[dataset[ci]].items)
    /\ ci' = ci + 1
    /\ mi' = 1
    /\ UNCHANGED <<sysVars, dlVars, heap, dataset, dataset0, augment_dataset>>

\* return augment_dataset
AugReturn ==
    /\ pc = <<"aug", "loop">>
    /\ ci > Len(dataset)
    /\ pc' = <<"aug", "done">>
    /\ UNCHANGED <<epoch, batchIdx, events, requires_grad, optimizer,
                   rec_metrics, best_valid, drop_cnt, submitted, last, augVars, dlVars>>

NextAug == AugExpand \/ AugNextConv \/ AugReturn

SpecAug == InitAug /\ [][NextAug]_vars

AugDone == pc = <<"aug", "done">>

\* the records rec_process_fn is to return for conversations i..n
RECURSIVE ExpandFrom(_)
ExpandFrom(i) ==
    IF i > Len(dataset0) THEN <<>>
    ELSE [k \in 1..Len(dataset0[i].items) |->
             SetKey(dataset0[i], "item", dataset0[i].items[k])]
         \o ExpandFrom(i + 1)

\* the records of augment_dataset, read through the heap
AugRecords == [k \in 1..Len(augment_dataset) |-> heap[augment_dataset[k]]]

\* records of augment_dataset that come from the same conversation
SameConv(a, b) == a.context_tokens = b.context_tokens

\* C10 as stated: a record with N items yields N records in item order, each
\* with a distinct target item and equal to the original in every other
\* field, and the dataset's own records stay as they were.
C10_Original ==
    AugDone =>
        /\ AugRecords = ExpandFrom(1)
        /\ \A i \in 1..Len(dataset) : heap[dataset[i]] = dataset0[i]
        /\ \A a \in 1..Len(augment_dataset), b \in 1..Len(augment_dataset) :
              (a # b /\ SameConv(AugRecords[a], AugRecords[b]))
              => AugRecords[a].item # AugRecords[b].item

\* C10 amended: a record with N items yields N records in item order, the
\* k-th with the k-th mentioned item as its target (so two of them share a
\* target exactly when the item is mentioned twice) and equal to the
\* original in every other field; the dataset's own records stay as they were.
C10_Expansion ==
    /\ IsPrefix(AugRecords, ExpandFrom(1))
    /\ \A i \in 1..Len(dataset) : heap[dataset[i]] = dataset0[i]
    /\ AugDone =>
          /\ AugRecords = ExpandFrom(1)
          /\ \A i \in 1..Len(dataset) :
                Cardinality({k \in 1..Len(augment_dataset) :
                                SameConv(AugRecords[k], dataset0[i])})
                   = Len(dataset0[i].items)
          /\ \A a \in 1..Len(augment_dataset), b \in 1..Len(augment_dataset) :
                (a < b /\ SameConv(AugRecords[a], AugRecords[b])
                       /\ AugRecords[a].item = AugRecords[b].item)
                => \E i \in 1..Len(dataset0) :
                      \E x, y \in 1..Len(dataset0[i].items) :
                         /\ x # y
                         /\ dataset0[i].items[x] = dataset0[i].items[y]
                         /\ dataset0[i].items[x] = AugRecords[a].item

\* a finished call on a conversation that mentions two different items
C10_Witness ==
    /\ AugDone
    /\ \E i \in 1..Len(dataset0) :
          /\ Len(dataset0[i].items) = 2
          /\ dataset0[i].items[1] # dataset0[i].items[2]
    /\ Len(augment_dataset) >= 2

(***************************************************************************)
(* TGReDialDataLoader._process_history and _neg_sample                     *)
(* The entity ids of the graph, which index the entity embedding matrix,   *)
(* are 0..n_entity-1; an item sequence holds such ids.                     *)
(***************************************************************************)
n_entity == NEntity
item_size == n_entity

\* ids that index a matrix of n_entity rows
ValidIds == 0..(n_entity - 1)

\* the item sequences a conversation can carry
Histories == UNION {[1..k -> ValidIds] : k \in 0..MaxHistory}

\* set(input_ids)
ToSet(seq) == {seq[k] : k \in 1..Len(seq)}

\* utils.truncate: a sequence longer than max_length loses its tail, or,
\* with truncate_tail=False, its head (the oldest elements)
truncate(vec, max_length, truncate_tail) ==
    IF Len(vec) <= max_length THEN vec
    ELSE IF max_length <= 0 THEN <<>>
    ELSE IF truncate_tail THEN SubSeq(vec, 1, max_length)
    ELSE SubSeq(vec, Len(vec) - max_length + 1, Len(vec))

\* a draw space that stops at the last valid id
DrawSpace_valid_ids == 1..(item_size - 1)

\* random.randint(1, self.item_size): both ends are included
DrawSpace == 1..item_size

\* a loop test that lets every draw through
Rejected_never(drawn, item_set) == FALSE

\* while item in item_set
Rejected(drawn, item_set) == drawn \in item_set

\* seq_set = set(input_ids)
seq_set == ToSet(input_ids)

\* _process_history(context_items) is called; input_ids is truncated
InitHist ==
    /\ pc = <<"hist", "loop">>
    /\ InitSystem
    /\ AugIdle
    /\ context_items \in Histories
    /\ input_ids = truncate(context_items, ItemTruncate, FALSE)
    /\ sample_negs = <<>>
    /\ item = None
    /\ BatchIdle
    /\ ExtIdle

\* for _ in input_ids: _neg_sample(seq_set) is entered and draws once
NegSampleCall ==
    /\ pc = <<"hist", "loop">>
    /\ Len(sample_negs) < Len(input_ids)
    /\ item' \in DrawSpace
    /\ pc' = <<"hist", "sample">>
    /\ UNCHANGED <<epoch, batchIdx, events, requires_grad, optimizer,
                   rec_metrics, best_valid, drop_cnt, submitted, last,
                   augVars, extVars, context_items, input_ids, sample_negs, batchVars>>

\* the drawn id is in the set: draw again
NegSampleRetry ==
    /\ pc = <<"hist", "sample">>
    /\ Rejected(item, seq_set)
    /\ item' \in DrawSpace
    /\ UNCHANGED <<sysVars, augVars, extVars, context_items, input_ids, sample_negs, batchVars>>

\* the drawn id is outside the set: return it, append it
NegSampleReturn ==
    /\ pc = <<"hist", "sample">>
    /\ ~Rejected(item, seq_set)
    /\ sample_negs' = Append(sample_negs, item)
    /\ item' = None
    /\ pc' = <<"hist", "loop">>
    /\ UNCHANGED <<epoch, batchIdx, events, requires_grad, optimizer,
                   rec_metrics, best_valid, drop_cnt, submitted, last,
                   augVars, extVars, context_items, input_ids, batchVars>>

\* the loop over input_ids is exhausted: return
HistReturn ==
    /\ pc = <<"hist", "loop">>
    /\ Len(sample_negs) = Len(input_ids)
    /\ pc' = <<"hist", "done">>
    /\ UNCHANGED <<epoch, batchIdx, events, requires_grad, optimizer,
                   rec_metrics, best_valid, drop_cnt, submitted, last,
                   augVars, dlVars>>

NextHist == NegSampleCall \/ NegSampleRetry \/ NegSampleReturn \/ HistReturn

SpecHist == InitHist /\ [][NextHist]_vars

\* a draw that yields v
Draw(v) == (NegSampleCall \/ NegSampleRetry) /\ item' = v

\* the loader keeps running, and the random generator is fair: an id of the
\* draw space that could be drawn again and again is drawn at some point
SpecHistFair ==
    /\ InitHist
    /\ [][NextHist]_vars
    /\ WF_vars(NextHist)
    /\ \A v \in DrawSpace : SF_vars(Draw(v))

HistDone == pc = <<"hist", "done">>

\* C11: _process_history yields one negative sample per position of the
\* truncated sequence (never more while it runs, exactly as many when it
\* returns), none of them an id of the sequence's item set.
C11_OneNegativePerPosition ==
    /\ Len(sample_negs) <= Len(input_ids)
    /\ \A k \in 1..Len(sample_negs) : sample_negs[k] \notin seq_set
    /\ HistDone => Len(sample_negs) = Len(input_ids)

\* a finished call on a sequence that was truncated and holds two ids
C11_Witness ==
    /\ HistDone
    /\ Len(context_items) > ItemTruncate
    /\ Cardinality(seq_set) >= 2
    /\ Len(sample_negs) = ItemTruncate

\* C12: the draw space always holds an id outside the item set, and under
\* fair draws every _neg_sample call returns and _process_history finishes.
C12_NegSampleTerminates ==
    /\ [](\E v \in DrawSpace : v \notin seq_set)
    /\ (pc = <<"hist", "sample">>) ~> (pc = <<"hist", "loop">>)
    /\ <>HistDone

\* a finished call that sampled although its item set holds every valid id
\* a draw can yield
C12_Witness ==
    /\ HistDone
    /\ (DrawSpace \cap ValidIds) \subseteq seq_set
    /\ Len(sample_negs) >= 1

\* C13 as stated: every negative id is a valid id, below n_entity.
C13_NegativesValid ==
    \A k \in 1..Len(sample_negs) : sample_negs[k] \in ValidIds

(***************************************************************************)
(* TGReDialDataLoader: vocabulary                                          *)
(***************************************************************************)
pad_token_idx == 0
start_token_idx == 1
end_token_idx == 2
unk_token_idx == 3
sent_split_idx == 4
word_split_idx == 5
conv_bos_id == start_token_idx
cls_id == start_token_idx
sep_id == end_token_idx
pad_entity_idx == 0
pad_word_idx == 0
pad_topic_idx == 0

\* vocab['tok2ind']: surface token -> id ("z" is not in the vocabulary)
tok2ind == ("a" :> 6) @@ ("b" :> 7) @@ ("c" :> 8)

\* vocab['id2entity']: entity id -> name, a string read character by character
id2entity == (1 :> <<"a", "(", "b">>) @@ (2 :> <<"z", "c">>)

\* vocab['ind2topic']: topic id -> the topic's tokens
ind2topic == (1 :> <<"a">>) @@ (2 :> <<"b", "z">>)

(***************************************************************************)
(* crslab.data.dataloader.utils                                            *)
(***************************************************************************)
\* every utterance's tokens in order, each utterance followed by the
\* separator when there is one
RECURSIVE ConcatWith(_, _)
ConcatWith(conversation, split_token_idx) ==
    IF conversation = <<>> THEN <<>>
    ELSE Head(conversation)
         \o (IF split_token_idx # None THEN <<split_token_idx>> ELSE <<>>)
         \o ConcatWith(Tail(conversation), split_token_idx)

\* utils.merge_utt: the utterances concatenated, the separator between
\* consecutive ones (and after the last with keep_split_in_tail), then the
\* final token when there is one
merge_utt(conversation, split_token_idx, keep_split_in_tail, final_token_idx) ==
    LET merged == ConcatWith(conversation, split_token_idx)
        cut == IF ~keep_split_in_tail /\ split_token_idx # None /\ merged # <<>>
               THEN SubSeq(merged, 1, Len(merged) - 1)
               ELSE merged
    IN IF final_token_idx # None THEN Append(cut, final_token_idx) ELSE cut

\* utils.add_start_end_token_idx: wrap with the markers that are given
add_start_end_token_idx(vec, start_idx, end_idx) ==
    (IF start_idx # None THEN <<start_idx>> ELSE <<>>)
    \o vec
    \o (IF end_idx # None THEN <<end_idx>> ELSE <<>>)

\* the length of the longest list
RECURSIVE MaxLenOf(_)
MaxLenOf(items) ==
    IF items = <<>> THEN 0
    ELSE LET rest == MaxLenOf(Tail(items))
         IN IF Len(Head(items)) > rest THEN Len(Head(items)) ELSE rest

\* utils.padded_tensor: one row per list, every row as wide as max_len or,
\* without max_len, as the longest list; the padding goes after the content
\* with pad_tail and before it otherwise
padded_tensor(items, pad_idx, pad_tail, max_len) ==
    LET t == IF max_len = None THEN MaxLenOf(items) ELSE max_len
    IN [i \in 1..Len(items) |->
           LET pads == [j \in 1..(t - Len(items[i])) |-> pad_idx]
           IN IF pad_tail THEN items[i] \o pads ELSE pads \o items[i]]

\* (tensor != pad_idx).long()
NotEqualMask(tensor, pad_idx) ==
    [i \in 1..Len(tensor) |->
        [j \in 1..Len(tensor[i]) |-> IF tensor[i][j] # pad_idx THEN 1 ELSE 0]]

(***************************************************************************)
(* Conversation records                                                    *)
(***************************************************************************)
Utterances == {<<6>>, <<7, 8, 6>>}

\* conv_dict['context_tokens']: one or two utterances
Contexts == {<<u>> : u \in Utterances} \cup {<<u, v>> : u, v \in Utterances}

\* k entity ids, all valid
Ids(k) == [i \in 1..k |-> ((i - 1) % (n_entity - 1)) + 1]

\* k token ids of the vocabulary
Toks(k) == [i \in 1..k |-> tok2ind["a"] + ((i - 1) % Cardinality(DOMAIN tok2ind))]

\* k topic ids, all known to ind2topic
Topics(k) == [i \in 1..k |-> ((i - 1) % Cardinality(DOMAIN ind2topic)) + 1]

\* a (action, topic_variable) pair of conv_dict['target']
Policy(is_list, topic_ids) == <<"act", [is_list |-> is_list, val |-> topic_ids]>>

\* the optional keys 'items' and 'target' of a record: which are present
\* and what they hold (entity 0 has no name, topic 3 has no tokens)
Extras ==
    {[has_items |-> FALSE, items |-> <<>>, has_target |-> FALSE, target |-> <<>>],
     [has_items |-> TRUE, items |-> <<2, 1>>, has_target |-> TRUE,
      target |-> <<Policy(TRUE, <<2>>)>>],
     [has_items |-> TRUE, items |-> <<>>, has_target |-> TRUE,
      target |-> <<Policy(TRUE, <<2>>)>>],
     [has_items |-> FALSE, items |-> <<>>, has_target |-> TRUE,
      target |-> <<Policy(FALSE, <<>>)>>],
     [has_items |-> TRUE, items |-> <<1>>, has_target |-> FALSE, target |-> <<>>],
     [has_items |-> TRUE, items |-> <<0>>, has_target |-> FALSE, target |-> <<>>],
     [has_items |-> FALSE, items |-> <<>>, has_target |-> TRUE,
      target |-> <<Policy(TRUE, <<3>>)>>]}

\* a record without the optional keys
BaseRecord(ct, k) ==
    [context_tokens |-> ct,
     response |-> Toks(k),
     context_entities |-> Ids(k),
     context_words |-> Ids(k),
     context_items |-> Ids(k),
     item |-> 1,
     final |-> <<"act", Topics(k)>>,
     context_policy |-> <<<<>>, <<<<"act", Append(Topics(k), pad_topic_idx)>>>>>>,
     user_profile |-> <<Toks(k), Toks(1)>>,
     target_topic |-> 1]

\* a record of the dataset
Record(ct, k, x) ==
    LET b == BaseRecord(ct, k)
        i == IF x.has_items THEN SetKey(b, "items", x.items) ELSE b
    IN IF x.has_target THEN SetKey(i, "target", x.target) ELSE i

\* the record lists a builder is handed: one record, or one record and a
\* second, short one
RecordLists ==
    LET first == {Record(ct, k, x) : ct \in Contexts, k \in 0..MaxLen, x \in Extras}
        second == BaseRecord(<<<<6>>>>, 1)
    IN {<<r>> : r \in first} \cup {<<r, second>> : r \in first}

(***************************************************************************)
(* TGReDialDataLoader: recommendation batches                              *)
(***************************************************************************)
\* _process_rec_context with the tail of the merged context cut off
ProcessRecContext_truncate_tail(context_tokens) ==
    LET compact_context ==
            [i \in 1..Len(context_tokens) |->
                IF i # 1 THEN <<sent_split_idx>> \o context_tokens[i]
                ELSE context_tokens[i]]
        merged == merge_utt(compact_context, None, FALSE, None)
        kept == truncate(merged, ContextTruncate - 2, TRUE)
    IN [ret |-> add_start_end_token_idx(kept, start_token_idx, end_token_idx),
        context_tokens |-> compact_context]

\* _process_rec_context: utterance.insert(0, sent_split_idx) changes the
\* utterance list of the record itself, and compact_context holds those
\* same lists; ret is the return value, context_tokens the record's list
\* after the call
ProcessRecContext(context_tokens) ==
    LET compact_context ==
            [i \in 1..Len(context_tokens) |->
                IF i # 1 THEN <<sent_split_idx>> \o context_tokens[i]
                ELSE context_tokens[i]]
        merged == merge_utt(compact_context, None, FALSE, None)
        kept == truncate(merged, ContextTruncate - 2, FALSE)
    IN [ret |-> add_start_end_token_idx(kept, start_token_idx, end_token_idx),
        context_tokens |-> compact_context]

\* the ids _neg_sample can return for an item set
NegSampleResults(item_set) == {v \in DrawSpace : ~Rejected(v, item_set)}

\* the negative samples _process_history can draw for one item sequence
NegChoices(item_seq) ==
    LET ids == truncate(item_seq, ItemTruncate, FALSE)
    IN [1..Len(ids) -> NegSampleResults(ToSet(ids))]

\* _process_history(item_seq, item_id) when its draws are negs
ProcessHistory(item_seq, item_id, negs) ==
    LET ids == truncate(item_seq, ItemTruncate, FALSE)
    IN [input_ids |-> ids,
        target_pos |-> IF item_id # None
                       THEN (IF ids = <<>> THEN <<>> ELSE Tail(ids)) \o <<item_id>>
                       ELSE <<>>,
        input_mask |-> [i \in 1..Len(ids) |-> 1],
        sample_negs |-> negs]

\* conv_dict['interaction_history'] + conv_dict['context_items'] when the
\* record has a history
HistoryItems(conv_dict) ==
    IF "interaction_history" \in DOMAIN conv_dict
    THEN conv_dict.interaction_history \o conv_dict.context_items
    ELSE conv_dict.context_items

\* the draws of a whole batch: one sequence of negatives per record
BatchNegChoices(b) ==
    {f \in [1..Len(b) -> UNION {NegChoices(HistoryItems(b[i])) : i \in 1..Len(b)}] :
        \A i \in 1..Len(b) : f[i] \in NegChoices(HistoryItems(b[i]))}

\* rec_batchify(b) when the draws are negs: the records after the call and
\* the returned tensors (lists: the rows before padding)
rec_batchify(b, negs, dflt) ==
    LET ctx == [i \in 1..Len(b) |-> ProcessRecContext(b[i].context_tokens)]
        hist == [i \in 1..Len(b) |->
                    ProcessHistory(HistoryItems(b[i]), b[i].item, negs[i])]
        batch_context == padded_tensor([i \in 1..Len(b) |-> ctx[i].ret],
                                       pad_token_idx, dflt, ContextTruncate)
    IN [records |-> [i \in 1..Len(b) |->
                        [b[i] EXCEPT !.context_tokens = ctx[i].context_tokens]],
        ret |-> [kind |-> "rec_batchify",
                 raised |-> FALSE,
                 lists |-> [context |-> [i \in 1..Len(b) |-> ctx[i].ret]],
                 fields |->
                    [context |-> batch_context,
                     mask |-> NotEqualMask(batch_context, pad_token_idx),
                     input_ids |->
                        padded_tensor([i \in 1..Len(b) |-> hist[i].input_ids],
                                      pad_token_idx, FALSE, ItemTruncate),
                     target_pos |->
                        padded_tensor([i \in 1..Len(b) |-> hist[i].target_pos],
                                      pad_token_idx, FALSE, ItemTruncate),
                     input_mask |->
                        padded_tensor([i \in 1..Len(b) |-> hist[i].input_mask],
                                      pad_token_idx, FALSE, ItemTruncate),
                     sample_negs |->
                        padded_tensor([i \in 1..Len(b) |-> hist[i].sample_negs],
                                      pad_token_idx, FALSE, ItemTruncate)],
                 movie_id |-> [i \in 1..Len(b) |-> b[i].item]]]

\* rec_interact(data) when the draws are negs
rec_interact(data, negs, dflt) ==
    LET ctx == ProcessRecContext(data.context_tokens)
        hist == ProcessHistory(HistoryItems(data), None, negs)
        context == padded_tensor(<<ctx.ret>>, pad_token_idx, dflt, ContextTruncate)
    IN [records |-> <<[data EXCEPT !.context_tokens = ctx.context_tokens]>>,
        ret |-> [kind |-> "rec_interact",
                 raised |-> FALSE,
                 lists |-> [context |-> <<ctx.ret>>],
                 fields |->
                    [context |-> context,
                     mask |-> NotEqualMask(context, pad_token_idx),
                     input_ids |-> padded_tensor(<<hist.input_ids>>,
                                      pad_token_idx, FALSE, ItemTruncate),
                     input_mask |-> padded_tensor(<<hist.input_mask>>,
                                      pad_token_idx, FALSE, ItemTruncate),
                     sample_negs |-> padded_tensor(<<hist.sample_negs>>,
                                      pad_token_idx, FALSE, ItemTruncate)],
                 movie_id |-> <<>>]]

(***************************************************************************)
(* TGReDialDataLoader: conversation batches                                *)
(***************************************************************************)
\* self.tok2ind.get(token, self.unk_token_idx)
TokLookup(token) ==
    IF token \in DOMAIN tok2ind THEN tok2ind[token] ELSE unk_token_idx

\* [tok2ind.get(token, unk) for token in surface]
TokensOf(surface) == [j \in 1..Len(surface) |-> TokLookup(surface[j])]

\* [[... for token in self.ind2topic[topic_id]] for topic_id in topic_ids]:
\* indexing ind2topic with an id it does not hold raises KeyError
TopicTokens(topic_ids) ==
    [raised |-> \E i \in 1..Len(topic_ids) : topic_ids[i] \notin DOMAIN ind2topic,
     val |-> [i \in 1..Len(topic_ids) |->
                 IF topic_ids[i] \in DOMAIN ind2topic
                 THEN TokensOf(ind2topic[topic_ids[i]])
                 ELSE <<>>]]

\* name.split('(')[0]: the characters before the first bracket
RECURSIVE SplitHead(_)
SplitHead(name) ==
    IF name = <<>> \/ Head(name) = "(" THEN <<>>
    ELSE <<Head(name)>> \o SplitHead(Tail(name))

\* [[... for token in self.id2entity[movie_id].split('(')[0]] for movie_id in ids]:
\* indexing id2entity with an id it does not hold raises KeyError
MovieTokens(movie_ids) ==
    [raised |-> \E i \in 1..Len(movie_ids) : movie_ids[i] \notin DOMAIN id2entity,
     val |-> [i \in 1..Len(movie_ids) |->
                 IF movie_ids[i] \in DOMAIN id2entity
                 THEN TokensOf(SplitHead(id2entity[movie_ids[i]]))
                 ELSE <<>>]]

\* the topics of every target_policy whose topic_variable is a list
RECURSIVE TargetTopics(_)
TargetTopics(target) ==
    IF target = <<>> THEN <<>>
    ELSE (IF Head(target)[2].is_list THEN Head(target)[2].val ELSE <<>>)
         \o TargetTopics(Tail(target))

\* _get_enhanced_topic
GetEnhancedTopic(conv_dict) ==
    IF "target" \in DOMAIN conv_dict
    THEN LET toks == TopicTokens(TargetTopics(conv_dict.target))
         IN [raised |-> toks.raised,
             val |-> merge_utt(toks.val, word_split_idx, FALSE, sent_split_idx)]
    ELSE [raised |-> FALSE, val |-> <<>>]

\* _get_enhanced_movie (sent_split_idx lands in merge_utt's third
\* parameter, keep_split_in_tail)
GetEnhancedMovie(conv_dict) ==
    IF "items" \in DOMAIN conv_dict
    THEN LET toks == MovieTokens(conv_dict.items)
         IN [raised |-> toks.raised,
             val |-> truncate(merge_utt(toks.val, word_split_idx,
                                        Truthy(sent_split_idx), None),
                              ItemTruncate, FALSE)]
    ELSE [raised |-> FALSE, val |-> <<>>]

\* an enhancement that tries the topic expansion before the item expansion
GetEnhancedContextTokens_topic_first(conv_dict, last_context_token) ==
    LET enhanced_topic == GetEnhancedTopic(conv_dict)
        enhanced_movie == GetEnhancedMovie(conv_dict)
    IN [raised |-> enhanced_topic.raised \/ enhanced_movie.raised,
        val |->
           IF Len(enhanced_topic.val) # 0
           THEN enhanced_topic.val
                \o truncate(last_context_token,
                            ContextTruncate - Len(enhanced_topic.val), FALSE)
           ELSE IF Len(enhanced_movie.val) # 0
           THEN enhanced_movie.val
                \o truncate(last_context_token,
                            ContextTruncate - Len(enhanced_movie.val), FALSE)
           ELSE last_context_token]

\* _get_enhanced_context_tokens
GetEnhancedContextTokens(conv_dict, last_context_token) ==
    LET enhanced_topic == GetEnhancedTopic(conv_dict)
        enhanced_movie == GetEnhancedMovie(conv_dict)
    IN [raised |-> enhanced_topic.raised \/ enhanced_movie.raised,
        val |->
           IF Len(enhanced_movie.val) # 0
           THEN enhanced_movie.val
                \o truncate(last_context_token,
                            ContextTruncate - Len(enhanced_movie.val), FALSE)
           ELSE IF Len(enhanced_topic.val) # 0
           THEN enhanced_topic.val
                \o truncate(last_context_token,
                            ContextTruncate - Len(enhanced_topic.val), FALSE)
           ELSE last_context_token]

\* _get_context_tokens: conv_bos_id after every utterance but the last
GetContextTokens(context_tokens) ==
    [i \in 1..Len(context_tokens) |->
        IF i < Len(context_tokens) THEN Append(context_tokens[i], conv_bos_id)
        ELSE context_tokens[i]]

\* torch.cat((a, b), dim=1)
CatRows(a, b) == [i \in 1..Len(a) |-> a[i] \o b[i]]

\* a builder that raised returns nothing
Raised(kind) == [kind |-> kind, raised |-> TRUE]

\* _finalize_batch
FinalizeBatch(kind, batch_context_tokens, batch_response, batch_enhanced_context_tokens, batch_context_entities, batch_context_words) ==
    LET context_tokens == padded_tensor(batch_context_tokens, pad_token_idx,
                                        FALSE, ContextTruncate)
        response == padded_tensor(batch_response, pad_token_idx,
                                  TRUE, ResponseTruncate)
        enhanced == padded_tensor(batch_enhanced_context_tokens, pad_token_idx,
                                  FALSE, ContextTruncate)
    IN [kind |-> kind,
        raised |-> FALSE,
        lists |-> [context |-> batch_context_tokens,
                   enhanced |-> batch_enhanced_context_tokens],
        fields |->
           [enhanced_input_ids |-> CatRows(enhanced, response),
            enhanced_context_tokens |-> enhanced,
            input_ids |-> CatRows(context_tokens, response),
            context_tokens |-> context_tokens,
            context_entities |-> padded_tensor(batch_context_entities,
                                               pad_entity_idx, FALSE, None),
            context_words |-> padded_tensor(batch_context_words,
                                            pad_word_idx, FALSE, None),
            response |-> response]]

\* the plain context of one record in conv_batchify
ConvContext(conv_dict) ==
    truncate(merge_utt(GetContextTokens(conv_dict.context_tokens),
                       None, FALSE, None),
             ContextTruncate, FALSE)

\* conv_batchify
conv_batchify(b) ==
    LET ctx == [i \in 1..Len(b) |-> ConvContext(b[i])]
        enh == [i \in 1..Len(b) |-> GetEnhancedContextTokens(b[i], ctx[i])]
    IN IF \E i \in 1..Len(b) : enh[i].raised
       THEN Raised("conv_batchify")
       ELSE FinalizeBatch(
                "conv_batchify",
                ctx,
                [i \in 1..Len(b) |->
                    add_start_end_token_idx(
                        truncate(b[i].response, ResponseTruncate - 2, TRUE),
                        start_token_idx, end_token_idx)],
                [i \in 1..Len(b) |-> enh[i].val],
                [i \in 1..Len(b) |->
                    truncate(b[i].context_entities, EntityTruncate, FALSE)],
                [i \in 1..Len(b) |->
                    truncate(b[i].context_words, WordTruncate, FALSE)])

\* a conv_interact that enhances the context as conv_batchify does
conv_interact_enhanced(data) ==
    LET b == conv_batchify(<<data>>)
    IN IF b.raised THEN Raised("conv_interact")
       ELSE [b EXCEPT !.kind = "conv_interact",
                      !.fields = [f \in DOMAIN b.fields \ {"response"} |->
                                     IF f = "enhanced_input_ids"
                                     THEN b.fields.enhanced_context_tokens
                                     ELSE IF f = "input_ids"
                                     THEN b.fields.context_tokens
                                     ELSE b.fields[f]]]

\* conv_interact
conv_interact(data) ==
    LET ctx == ConvContext(data)
        context_tokens == padded_tensor(<<ctx>>, pad_token_idx,
                                        FALSE, ContextTruncate)
    IN [kind |-> "conv_interact",
        raised |-> FALSE,
        lists |-> [context |-> <<ctx>>, enhanced |-> <<ctx>>],
        fields |->
           [enhanced_input_ids |-> context_tokens,
            enhanced_context_tokens |-> context_tokens,
            input_ids |-> context_tokens,
            context_tokens |-> context_tokens,
            context_entities |->
                padded_tensor(<<truncate(data.context_entities,
                                         EntityTruncate, FALSE)>>,
                              pad_entity_idx, FALSE, None),
            context_words |->
                padded_tensor(<<truncate(data.context_words,
                                         WordTruncate, FALSE)>>,
                              pad_word_idx, FALSE, None)]]

(***************************************************************************)
(* TGReDialDataLoader: policy batches                                      *)
(***************************************************************************)
\* _get_final_topic
GetFinalTopic(final_topic) ==
    LET toks == TopicTokens(final_topic[2])
    IN [raised |-> toks.raised,
        val |-> merge_utt(toks.val, word_split_idx, FALSE, sep_id)]

\* _get_context
GetContext(context_tokens, final_topic) ==
    LET context == merge_utt(context_tokens, sent_split_idx, FALSE, sep_id)
                   \o final_topic
    IN add_start_end_token_idx(truncate(context, ContextTruncate - 1, FALSE),
                               cls_id, None)

\* _get_policy_tokens: the pad topic is skipped
GetPolicyTokens(topic_ids) ==
    TopicTokens(SelectSeq(topic_ids, LAMBDA t : t # pad_topic_idx))

\* the policies of all turns, in order
RECURSIVE AllPolicies(_)
AllPolicies(context_policies) ==
    IF context_policies = <<>> THEN <<>>
    ELSE Head(context_policies) \o AllPolicies(Tail(context_policies))

\* context_policy.extend(self._get_policy_tokens(policy[1])) over a list of
\* policies
RECURSIVE ExtendPolicyTokens(_)
ExtendPolicyTokens(policies) ==
    IF policies = <<>> THEN [raised |-> FALSE, val |-> <<>>]
    ELSE LET h == GetPolicyTokens(Head(policies)[2])
             r == ExtendPolicyTokens(Tail(policies))
         IN [raised |-> h.raised \/ r.raised, val |-> h.val \o r.val]

\* _get_context_policy
GetContextPolicy(context_policies, final_topic) ==
    LET toks == ExtendPolicyTokens(AllPolicies(context_policies))
        merged == merge_utt(toks.val, word_split_idx, FALSE, None)
    IN [raised |-> toks.raised,
        val |-> add_start_end_token_idx(merged, cls_id, sep_id) \o final_topic]

\* batch_user_profile.extend(conv_dict['user_profile']) over the batch
RECURSIVE AllProfiles(_)
AllProfiles(b) ==
    IF b = <<>> THEN <<>>
    ELSE Head(b).user_profile \o AllProfiles(Tail(b))

\* a _finalize_policy_batch that pads the context on the left
FinalizePolicyBatch_pad_head(batch_context, batch_context_policy, batch_user_profile, batch_target) ==
    LET context == padded_tensor(batch_context, pad_token_idx,
                                 FALSE, ContextTruncate)
        context_policy == padded_tensor(batch_context_policy, pad_token_idx,
                                        TRUE, None)
        user_profile == padded_tensor(batch_user_profile, pad_token_idx,
                                      TRUE, None)
    IN [kind |-> "policy_batchify",
        raised |-> FALSE,
        lists |-> [context |-> batch_context],
        fields |->
           [context |-> context,
            context_mask |-> NotEqualMask(context, pad_token_idx),
            context_policy |-> context_policy,
            context_policy_mask |-> NotEqualMask(context_policy, 0),
            user_profile |-> user_profile,
            user_profile_mask |-> NotEqualMask(user_profile, 0)],
        target |-> batch_target]

\* _finalize_policy_batch
FinalizePolicyBatch(batch_context, batch_context_policy, batch_user_profile, batch_target) ==
    LET context == padded_tensor(batch_context, pad_token_idx,
                                 TRUE, ContextTruncate)
        context_policy == padded_tensor(batch_context_policy, pad_token_idx,
                                        TRUE, None)
        user_profile == padded_tensor(batch_user_profile, pad_token_idx,
                                      TRUE, None)
    IN [kind |-> "policy_batchify",
        raised |-> FALSE,
        lists |-> [context |-> batch_context],
        fields |->
           [context |-> context,
            context_mask |-> NotEqualMask(context, pad_token_idx),
            context_policy |-> context_policy,
            context_policy_mask |-> NotEqualMask(context_policy, 0),
            user_profile |-> user_profile,
            user_profile_mask |-> NotEqualMask(user_profile, 0)],
        target |-> batch_target]

\* policy_batchify
policy_batchify(b) ==
    LET final == [i \in 1..Len(b) |-> GetFinalTopic(b[i].final)]
        pol == [i \in 1..Len(b) |->
                   GetContextPolicy(b[i].context_policy, final[i].val)]
    IN IF \E i \in 1..Len(b) : final[i].raised \/ pol[i].raised
       THEN Raised("policy_batchify")
       ELSE FinalizePolicyBatch(
                [i \in 1..Len(b) |-> GetContext(b[i].context_tokens, final[i].val)],
                [i \in 1..Len(b) |-> pol[i].val],
                AllProfiles(b),
                [i \in 1..Len(b) |-> b[i].target_topic])

(***************************************************************************)
(* The batch builders called, in any order, on the same list of records    *)
(***************************************************************************)
InitBatch ==
    /\ pc = <<"batch", "idle">>
    /\ InitSystem
    /\ AugIdle
    /\ HistIdle
    /\ ExtIdle
    /\ records \in RecordLists
    /\ records0 = records
    /\ arg = records
    /\ ret = [kind |-> "none"]
    /\ builds = 0
    /\ pad_tail_default \in BOOLEAN

RecBatchify ==
    /\ pc = <<"batch", "idle">>
    /\ builds < MaxBuilds
    /\ \E negs \in BatchNegChoices(records) :
          LET r == rec_batchify(records, negs, pad_tail_default)
          IN /\ records' = r.records
             /\ ret' = r.ret
    /\ arg' = records
    /\ builds' = builds + 1
    /\ UNCHANGED <<sysVars, augVars, extVars, histVars, records0, pad_tail_default>>

\* rec_interact on the first record
RecInteract ==
    /\ pc = <<"batch", "idle">>
    /\ builds < MaxBuilds
    /\ \E negs \in NegChoices(HistoryItems(records[1])) :
          LET r == rec_interact(records[1], negs, pad_tail_default)
          IN /\ records' = [records EXCEPT ![1] = r.records[1]]
             /\ ret' = r.ret
    /\ arg' = records
    /\ builds' = builds + 1
    /\ UNCHANGED <<sysVars, augVars, extVars, histVars, records0, pad_tail_default>>

ConvBatchify ==
    /\ pc = <<"batch", "idle">>
    /\ builds < MaxBuilds
    /\ ret' = conv_batchify(records)
    /\ arg' = records
    /\ builds' = builds + 1
    /\ UNCHANGED <<sysVars, augVars, extVars, histVars, records, records0,
                   pad_tail_default>>

\* conv_interact on the first record
ConvInteract ==
    /\ pc = <<"batch", "idle">>
    /\ builds < MaxBuilds
    /\ ret' = conv_interact(records[1])
    /\ arg' = records
    /\ builds' = builds + 1
    /\ UNCHANGED <<sysVars, augVars, extVars, histVars, records, records0,
                   pad_tail_default>>

PolicyBatchify ==
    /\ pc = <<"batch", "idle">>
    /\ builds < MaxBuilds
    /\ ret' = policy_batchify(records)
    /\ arg' = records
    /\ builds' = builds + 1
    /\ UNCHANGED <<sysVars, augVars, extVars, histVars, records, records0,
                   pad_tail_default>>

NextBatch ==
    RecBatchify \/ RecInteract \/ ConvBatchify \/ ConvInteract \/ PolicyBatchify

SpecBatch == InitBatch /\ [][NextBatch]_vars

\* a builder has returned a batch
Built == ret.kind # "none" /\ ~ret.raised

RecKinds == {"rec_batchify", "rec_interact"}
ConvKinds == {"conv_batchify", "conv_interact"}

\* the records a builder of this kind reads out of the list b
BatchOf(kind, b) ==
    IF kind \in {"rec_interact", "conv_interact"} THEN <<b[1]>> ELSE b

\* the context tensor of a returned batch
ContextField(r) ==
    IF r.kind \in ConvKinds THEN r.fields.context_tokens ELSE r.fields.context

\* the context tensor a builder of this kind returns for the records b
BuiltContext(kind, b) ==
    CASE kind = "rec_batchify" ->
            ContextField(rec_batchify(b, CHOOSE n \in BatchNegChoices(b) : TRUE,
                                      pad_tail_default).ret)
      [] kind = "rec_interact" ->
            ContextField(rec_interact(b[1],
                            CHOOSE n \in NegChoices(HistoryItems(b[1])) : TRUE,
                            pad_tail_default).ret)
      [] kind = "conv_batchify" -> ContextField(conv_batchify(b))
      [] kind = "conv_interact" -> ContextField(conv_interact(b[1]))
      [] kind = "policy_batchify" -> ContextField(policy_batchify(b))

\* C14 as stated: a builder leaves every field of the records as the dataset
\* first held them, and the context tensor of every batch is the one the
\* builder makes of the records as first held (so an epoch later it is the
\* same).
C14_RecordsImmutable ==
    /\ records = records0
    /\ Built => ContextField(ret) = BuiltContext(ret.kind, records0)

\* the utterances with exactly one separator between consecutive ones
RECURSIVE JoinUtterances(_, _)
JoinUtterances(utterances, sep) ==
    IF utterances = <<>> THEN <<>>
    ELSE IF Len(utterances) = 1 THEN utterances[1]
    ELSE utterances[1] \o <<sep>> \o JoinUtterances(Tail(utterances), sep)

\* the most recent n elements (all of them when there are no more than n)
LastN(seq, n) ==
    IF Len(seq) <= n THEN seq ELSE SubSeq(seq, Len(seq) - n + 1, Len(seq))

\* C15: the result of _process_rec_context begins with the start token, ends
\* with the end token, is no longer than context_truncate, and its interior
\* is the most recent context_truncate - 2 tokens of the utterances the call
\* was handed, concatenated in order with one separator between consecutive
\* utterances.
C15_RecContextShape ==
    (Built /\ ret.kind \in RecKinds) =>
        \A i \in 1..Len(ret.lists.context) :
            LET res == ret.lists.context[i]
                utterances == BatchOf(ret.kind, arg)[i].context_tokens
            IN /\ Len(res) >= 2
               /\ Len(res) <= ContextTruncate
               /\ res[1] = start_token_idx
               /\ res[Len(res)] = end_token_idx
               /\ SubSeq(res, 2, Len(res) - 1)
                    = LastN(JoinUtterances(utterances, sent_split_idx),
                            ContextTruncate - 2)

\* a recommendation batch of two records, one whose two utterances do not
\* fit and lose their oldest tokens, one whose context fits whole
C15_Witness ==
    /\ Built
    /\ ret.kind = "rec_batchify"
    /\ Len(arg) = 2
    /\ Len(arg[1].context_tokens) = 2
    /\ Len(JoinUtterances(arg[1].context_tokens, sent_split_idx))
          > ContextTruncate - 2
    /\ Len(ret.lists.context[2]) < ContextTruncate

BatchifyKinds == {"rec_batchify", "conv_batchify", "policy_batchify"}

\* the truncation length configured for each field of a batch (the policy
\* batch's context_policy and user_profile have none)
ConfiguredLength(kind) ==
    CASE kind = "rec_batchify" ->
            [context |-> ContextTruncate, mask |-> ContextTruncate,
             input_ids |-> ItemTruncate, target_pos |-> ItemTruncate,
             input_mask |-> ItemTruncate, sample_negs |-> ItemTruncate]
      [] kind = "conv_batchify" ->
            [enhanced_input_ids |-> ContextTruncate + ResponseTruncate,
             enhanced_context_tokens |-> ContextTruncate,
             input_ids |-> ContextTruncate + ResponseTruncate,
             context_tokens |-> ContextTruncate,
             context_entities |-> EntityTruncate,
             context_words |-> WordTruncate,
             response |-> ResponseTruncate]
      [] kind = "policy_batchify" ->
            [context |-> ContextTruncate, context_mask |-> ContextTruncate]

\* every row of the field f of the returned batch is n wide
RowsAre(f, n) == \A i \in 1..Len(ret.fields[f]) : Len(ret.fields[f][i]) = n

\* C16 as stated: in every batch of rec_batchify, conv_batchify and
\* policy_batchify each field with a configured truncation length has rows
\* of exactly that length, whatever the examples.
C16_FixedWidths ==
    (Built /\ ret.kind \in BatchifyKinds) =>
        \A f \in DOMAIN ConfiguredLength(ret.kind) :
            RowsAre(f, ConfiguredLength(ret.kind)[f])

\* no pad after content: the content is flush right
FlushRight(row, pad_idx) ==
    \A i, j \in 1..Len(row) : (i < j /\ row[i] # pad_idx) => row[j] # pad_idx

\* no pad before content: the content is flush left
FlushLeft(row, pad_idx) ==
    \A i, j \in 1..Len(row) : (i < j /\ row[j] # pad_idx) => row[i] # pad_idx

\* the field f of the returned batch is padded on the left
PaddedLeft(f, pad_idx) ==
    \A i \in 1..Len(ret.fields[f]) : FlushRight(ret.fields[f][i], pad_idx)

\* the field f of the returned batch is padded at the end
PaddedTail(f, pad_idx) ==
    \A i \in 1..Len(ret.fields[f]) : FlushLeft(ret.fields[f][i], pad_idx)

\* some row of the field f holds both padding and content
HasPadding(f, pad_idx) ==
    \E i \in 1..Len(ret.fields[f]) :
        /\ \E j \in 1..Len(ret.fields[f][i]) : ret.fields[f][i][j] = pad_idx
        /\ \E j \in 1..Len(ret.fields[f][i]) : ret.fields[f][i][j] # pad_idx

\* the sides the conversation builders pad
ConvSides ==
    ret.kind \in ConvKinds =>
        /\ PaddedLeft("context_tokens", pad_token_idx)
        /\ PaddedLeft("enhanced_context_tokens", pad_token_idx)
        /\ PaddedLeft("context_entities", pad_entity_idx)
        /\ PaddedLeft("context_words", pad_word_idx)
        /\ ret.kind = "conv_batchify" => PaddedTail("response", pad_token_idx)

\* the sides the recommendation builders pad the item history
RecHistorySides ==
    ret.kind \in RecKinds =>
        /\ PaddedLeft("input_ids", pad_token_idx)
        /\ PaddedLeft("input_mask", pad_token_idx)
        /\ PaddedLeft("sample_negs", pad_token_idx)
        /\ ret.kind = "rec_batchify" => PaddedLeft("target_pos", pad_token_idx)

\* C17 as stated: in every builder the context-like fields are padded on
\* the left and the response at the end.
C17_Original ==
    Built =>
        /\ ConvSides
        /\ RecHistorySides
        /\ ret.kind \in RecKinds => PaddedLeft("context", pad_token_idx)
        /\ ret.kind = "policy_batchify" => PaddedLeft("context", pad_token_idx)

\* C17 amended: the conversation builders pad context, enhanced context,
\* entity ids and word ids on the left and the response at the end; the
\* recommendation builders pad the item-history fields on the left and the
\* context on the side padded_tensor pads by default; policy_batchify pads
\* context, context policy and user profile at the end.
C17_PaddingSides ==
    Built =>
        /\ ConvSides
        /\ RecHistorySides
        /\ ret.kind \in RecKinds =>
              IF pad_tail_default THEN PaddedTail("context", pad_token_idx)
              ELSE PaddedLeft("context", pad_token_idx)
        /\ ret.kind = "policy_batchify" =>
              /\ PaddedTail("context", pad_token_idx)
              /\ PaddedTail("context_policy", pad_token_idx)
              /\ PaddedTail("user_profile", pad_token_idx)

\* a policy batch whose context and context policy needed padding
C17_Witness ==
    /\ Built
    /\ ret.kind = "policy_batchify"
    /\ HasPadding("context", pad_token_idx)
    /\ HasPadding("context_policy", pad_token_idx)

\* C18: in conv_batchify the enhanced context of a record is its item
\* expansion followed by the plain context cut to the room that is left,
\* when the item expansion is not empty; otherwise its topic expansion
\* followed by the plain context cut likewise, when the topic expansion is
\* not empty; otherwise the plain context. With both expansions only the
\* item expansion is injected.
C18_EnhancementPriority ==
    (Built /\ ret.kind = "conv_batchify") =>
        \A i \in 1..Len(arg) :
            LET plain == ret.lists.context[i]
                enhanced == ret.lists.enhanced[i]
                movie == GetEnhancedMovie(arg[i]).val
                topic == GetEnhancedTopic(arg[i]).val
            IN /\ movie # <<>> =>
                     enhanced = movie \o LastN(plain, ContextTruncate - Len(movie))
               /\ (movie = <<>> /\ topic # <<>>) =>
                     enhanced = topic \o LastN(plain, ContextTruncate - Len(topic))
               /\ (movie = <<>> /\ topic = <<>>) => enhanced = plain

\* a conversation batch of a record with both an item and a topic target,
\* whose enhanced context is not the one the topic expansion would give
C18_Witness ==
    /\ Built
    /\ ret.kind = "conv_batchify"
    /\ GetEnhancedMovie(arg[1]).val # <<>>
    /\ GetEnhancedTopic(arg[1]).val # <<>>
    /\ GetEnhancedMovie(arg[1]).val # GetEnhancedTopic(arg[1]).val
    /\ Len(ret.lists.context[1]) + Len(GetEnhancedMovie(arg[1]).val)
          > ContextTruncate

\* a record without its 'items' and 'target' keys
Plain(conv_dict) ==
    [k \in DOMAIN conv_dict \ {"items", "target"} |-> conv_dict[k]]

\* C19: conv_interact returns a batch, never an error, whose two enhanced
\* fields equal the plain context tensor, and the whole batch is the one it
\* returns for the same data without 'items' and 'target'.
C19_NoEnhancementAtInference ==
    ret.kind = "conv_interact" =>
        /\ ~ret.raised
        /\ ret.fields.enhanced_context_tokens = ret.fields.context_tokens
        /\ ret.fields.enhanced_input_ids = ret.fields.context_tokens
        /\ ret.fields.context_tokens
              = padded_tensor(<<ConvContext(Plain(arg[1]))>>, pad_token_idx,
                              FALSE, ContextTruncate)
        /\ ret = conv_interact(Plain(arg[1]))

\* conv_interact on data that carries items and a target with non-empty
\* expansions
C19_Witness ==
    /\ ret.kind = "conv_interact"
    /\ "items" \in DOMAIN arg[1]
    /\ "target" \in DOMAIN arg[1]
    /\ GetEnhancedMovie(arg[1]).val # <<>>
    /\ GetEnhancedTopic(arg[1]).val # <<>>

\* C20 as stated: no builder raises on an entity id absent from id2entity
\* or a topic id absent from ind2topic; it still returns a batch.
C20_NoRaise == ret.kind # "none" => ~ret.raised

(***************************************************************************)
(* KGSFModel decoding: _decode_forced_with_kg, _decode_greedy_with_kg and  *)
(* decode_beam_search_with_kg.  A tensor is a nested sequence; the tokens  *)
(* the network ranks first are any the vocabulary holds.                   *)
(***************************************************************************)
MaxBeam == 2            \* SpecDecode: largest beam argument

\* the batch sizes a decoding call is made with
BatchSizes == {1, 2}

\* the token ids an argmax or a topk over the vocabulary can give: the
\* logits cover every index and none is masked
OutTokens == {start_token_idx, end_token_idx, tok2ind["a"]}

\* batch['response'] as conv_batchify builds it, one row per example
ResponseBatches(n) ==
    LET rows == {add_start_end_token_idx(truncate(u, ResponseTruncate - 2, TRUE),
                                         start_token_idx, end_token_idx) :
                     u \in Utterances \cup {<<>>}}
    IN {padded_tensor(b, pad_token_idx, TRUE, ResponseTruncate) :
            b \in [1..n -> rows]}

\* _starts: one START token per row
starts(n) == [j \in 1..n |-> <<start_token_idx>>]

\* tensor.view(-1) of a matrix: its rows one after the other
RECURSIVE View1(_)
View1(mat) == IF mat = <<>> THEN <<>> ELSE Head(mat) \o View1(Tail(mat))

\* a forced decoder input that keeps the whole response after START
ForcedInputs_keep_last(response) ==
    [j \in DOMAIN response |-> starts(Len(response))[j] \o response[j]]

\* inputs = torch.cat((start, response[:, :-1]), dim=-1)
ForcedInputs(response) ==
    [j \in DOMAIN response |->
        starts(Len(response))[j] \o SubSeq(response[j], 1, Len(response[j]) - 1)]

\* _decode_forced_with_kg: the decoder gives one latent, hence one row of
\* logits, per input position; logits[j][i] is named by <<j, i>>
decode_forced_with_kg(response) ==
    LET inp == ForcedInputs(response)
    IN [inputs |-> inp,
        logits |-> [j \in DOMAIN inp |-> [i \in DOMAIN inp[j] |-> <<j, i>>]]]

\* nn.CrossEntropyLoss(ignore_index=pad)(logits, targets): the k-th row of
\* logits is paired with the k-th target, and the pair counts in the loss
\* unless the target is the pad
conv_loss(logits, targets) ==
    IF Len(logits) # Len(targets)
       THEN [raised |-> TRUE, pairs |-> {}, scored |-> {}]
       ELSE [raised |-> FALSE,
             pairs |-> {<<logits[k], targets[k]>> : k \in DOMAIN targets},
             scored |-> {<<logits[k], targets[k]>> :
                            k \in {x \in DOMAIN targets : targets[x] # pad_token_idx}}]

\* converse with mode != 'test'
converse_forced(response) ==
    LET o == decode_forced_with_kg(response)
    IN [kind |-> "forced", raised |-> FALSE,
        inputs |-> o.inputs, logits |-> o.logits,
        loss |-> conv_loss(View1(o.logits), View1(response))]

\* a stopping test that is content with one finished row
GreedyFinished_any(inp) ==
    Cardinality({j \in DOMAIN inp : \E i \in DOMAIN inp[j] : inp[j][i] = end_token_idx}) > 0

\* ((inputs == end).sum(dim=-1) > 0).sum().item() == batch_size
GreedyFinished(inp) ==
    Cardinality({j \in DOMAIN inp : \E i \in DOMAIN inp[j] : inp[j][i] = end_token_idx})
        = Len(inp)

\* the candidates a beam search holds after a step: `beam` per element, each
\* the START token and one generated token
HeldSequences(bs, bm) ==
    [1..bs -> [1..bm ->
        {[tokens |-> <<start_token_idx, t>>, logits |-> 1, score |-> 1] :
             t \in OutTokens}]]

\* decoder inputs of shape (beam, batch_size, 2)
HeldInputs(bs, bm) ==
    [1..bm -> [1..bs -> {<<start_token_idx, t>> : t \in OutTokens}]]

\* a decoding call is made: converse in training or validation (forced),
\* converse in test (greedy), decode_beam_search_with_kg, or one of the two
\* helpers of the beam search on what a step has left
InitDecode ==
    /\ pc \in {<<"decode", m>> :
                  m \in {"forced", "greedy", "beam", "get_inputs", "finished"}}
    /\ InitSystem
    /\ AugIdle
    /\ HistIdle
    /\ BatchIdle
    /\ FilesIdle
    /\ batch_size \in BatchSizes
    /\ beam \in IF pc[2] \in {"forced", "greedy"} THEN {0} ELSE 1..MaxBeam
    /\ truth \in IF pc[2] = "forced" THEN ResponseBatches(batch_size) ELSE {<<>>}
    /\ inputs \in CASE pc[2] = "beam" -> {<<starts(batch_size)>>}
                    [] pc[2] = "finished" -> HeldInputs(batch_size, beam)
                    [] pc[2] = "get_inputs" -> {<<>>}
                    [] OTHER -> {starts(batch_size)}
    /\ steps = 0
    /\ sequences \in CASE pc[2] = "beam" ->
                            {[j \in 1..batch_size |->
                                <<[tokens |-> <<>>, logits |-> 0, score |-> 1]>>]}
                       [] pc[2] = "get_inputs" -> HeldSequences(batch_size, beam)
                       [] OTHER -> {<<>>}
    /\ decoded = [kind |-> "none"]

Running(m) == pc = <<"decode", m>> /\ decoded.kind = "none"

\* converse(batch, mode) with mode != 'test'
ForcedDecode ==
    /\ Running("forced")
    /\ decoded' = converse_forced(truth)
    /\ inputs' = decoded'.inputs
    /\ steps' = 1
    /\ UNCHANGED <<sysVars, augVars, histVars, batchVars, buildVars, downloadVars,
                   batch_size, beam, truth, sequences>>

\* one iteration of the loop of _decode_greedy_with_kg; the iteration that
\* finds every row finished, or is the last the loop allows, returns
GreedyStep ==
    /\ Running("greedy")
    /\ steps < ResponseTruncate
    /\ \E preds \in [1..batch_size -> OutTokens] :
          /\ inputs' = [j \in DOMAIN inputs |-> inputs[j] \o <<preds[j]>>]
          /\ steps' = steps + 1
          /\ decoded' = IF GreedyFinished(inputs') \/ steps' = ResponseTruncate
                           THEN [kind |-> "greedy", raised |-> FALSE,
                                 logits |-> steps', inputs |-> inputs']
                           ELSE decoded
    /\ UNCHANGED <<sysVars, augVars, histVars, batchVars, buildVars, downloadVars,
                   batch_size, beam, truth, sequences>>
\* the values a probability is drawn from, in quarters
ProbVals == {1, 2}

\* tensor[i1][i2]...[in] with indices from 0: every index consumes one
\* dimension of the shape and has to lie inside it (IndexError otherwise)
ValidIndex(shape, ix) ==
    /\ Len(ix) <= Len(shape)
    /\ \A d \in DOMAIN ix : ix[d] < shape[d]

\* _compute_logits and _get_top_k_probabilities: the N = inputs.size(0) *
\* inputs.size(1) rows of the reshaped input give logits of shape
\* (N, 1, vocab), and topk(beam, dim=-1) of them gives probs and preds of
\* shape (N, 1, beam)
TopKOut(inp, bm) ==
    LET N == Len(inp) * Len(inp[1])
        ixs == {<<n, 0, k>> : n \in 0..(N - 1), k \in 0..(bm - 1)}
    IN [shape : {<<N, 1, bm>>},
        logits_shape : {<<N, 1, Cardinality(OutTokens)>>},
        preds : [ixs -> OutTokens],
        probs : [ixs -> ProbVals]]

\* cands[:beam]
KeepBeam(cands, bm) ==
    IF Len(cands) <= bm THEN cands ELSE SubSeq(cands, 1, bm)

\* sorted(candidates, key=lambda x: x[2], reverse=True): the sort is stable,
\* candidates of equal score stay in the order they were generated in
RECURSIVE SortedByScore(_)
SortedByScore(cands) ==
    IF cands = <<>> THEN <<>>
    ELSE LET rest == SortedByScore(SubSeq(cands, 1, Len(cands) - 1))
             c == cands[Len(cands)]
             before == {p \in 0..Len(rest) :
                           \A q \in 1..p : rest[q].score >= c.score}
             at == CHOOSE p \in before : \A q \in before : q <= p
         IN SubSeq(rest, 1, at) \o <<c>> \o SubSeq(rest, at + 1, Len(rest))

\* _update_sequences: for every element j, every held candidate n and every
\* k < beam the extension of inputs[n][j] by preds[n][j][0][k], scored
\* sequences[j][n][2] * probs[n][j][0][k]; the best `beam` are kept
update_sequences(seqs, inp, tk, bm, bs) ==
    LET reads == {r \in (0..(bm * bs)) \X (0..(bs - 1)) \X (0..(bm - 1)) :
                     r[1] < Len(seqs[r[2] + 1])}
        index_error == \E r \in reads :
            \/ ~ValidIndex(<<Len(inp), Len(inp[1])>>, <<r[1], r[2]>>)
            \/ ~ValidIndex(tk.shape, <<r[1], r[2], 0, r[3]>>)
            \/ ~ValidIndex(tk.logits_shape, <<r[1], r[2], 0>>)
        \* `if sequences[j][n][1]` on a tensor of more than one value
        ambiguous == \E j \in 1..bs : \E n \in DOMAIN seqs[j] : seqs[j][n].logits > 0
        cand(j, m) ==
            LET n == (m - 1) \div bm
                k == (m - 1) % bm
            IN [tokens |-> inp[n + 1][j] \o <<tk.preds[<<n, j - 1, 0, k>>]>>,
                logits |-> seqs[j][n + 1].logits + 1,
                score  |-> seqs[j][n + 1].score * tk.probs[<<n, j - 1, 0, k>>]]
    IN IF index_error THEN [raised |-> TRUE, error |-> "IndexError"]
       ELSE IF ambiguous THEN [raised |-> TRUE, error |-> "RuntimeError"]
       ELSE [raised |-> FALSE,
             sequences |->
                 [j \in 1..bs |->
                     KeepBeam(SortedByScore([m \in 1..(Len(seqs[j]) * bm) |-> cand(j, m)]),
                              bm)]]

\* _get_inputs_from_sequences:
\* torch.stack([seq[0][0] for seq in sequences]).reshape(beam, batch_size, -1)
get_inputs_from_sequences(seqs, bm, bs) ==
    LET flat == View1([j \in DOMAIN seqs |-> seqs[j][1].tokens])
        rows == bm * bs
        width == Len(flat) \div rows
    IN IF Len(flat) = 0 \/ Len(flat) % rows # 0
          THEN [raised |-> TRUE, error |-> "RuntimeError"]
          ELSE [raised |-> FALSE,
                inputs |-> [b \in 1..bm |-> [j \in 1..bs |->
                    SubSeq(flat, ((b - 1) * bs + (j - 1)) * width + 1,
                                 ((b - 1) * bs + j) * width)]]]

\* _is_generation_finished:
\* ((inputs == end).sum(dim=1) > 0).sum().item() == inputs.size(1)
\* on the (beam, batch_size, length) input; dim 1 is the batch dimension
is_generation_finished(inp) ==
    Cardinality({bl \in (DOMAIN inp) \X (DOMAIN inp[1][1]) :
                    \E j \in DOMAIN inp[bl[1]] : inp[bl[1]][j][bl[2]] = end_token_idx})
        = Len(inp[1])

\* _get_final_outputs: the best candidate of every element
get_final_outputs(seqs) ==
    [kind |-> "beam", raised |-> FALSE,
     logits |-> [j \in DOMAIN seqs |-> seqs[j][1].logits],
     inputs |-> [j \in DOMAIN seqs |-> seqs[j][1].tokens]]

\* one iteration of the loop of decode_beam_search_with_kg; an exception
\* ends the call, and so does the iteration that finds the generation
\* finished or is the last the loop allows
BeamStep ==
    /\ Running("beam")
    /\ steps < ResponseTruncate
    /\ LET gi == IF steps = 0 THEN [raised |-> FALSE, inputs |-> inputs]
                 ELSE get_inputs_from_sequences(sequences, beam, batch_size)
       IN IF gi.raised
             THEN /\ decoded' = [kind |-> "beam", raised |-> TRUE, error |-> gi.error]
                  /\ UNCHANGED <<inputs, sequences>>
             ELSE \E tk \in TopKOut(gi.inputs, beam) :
                    LET u == update_sequences(sequences, gi.inputs, tk, beam, batch_size)
                    IN IF u.raised
                          THEN /\ decoded' = [kind |-> "beam", raised |-> TRUE,
                                              error |-> u.error]
                               /\ UNCHANGED <<inputs, sequences>>
                          ELSE /\ inputs' = gi.inputs
                               /\ sequences' = u.sequences
                               /\ decoded' =
                                    IF is_generation_finished(gi.inputs)
                                       \/ steps + 1 = ResponseTruncate
                                       THEN get_final_outputs(u.sequences)
                                       ELSE decoded
    /\ steps' = steps + 1
    /\ UNCHANGED <<sysVars, augVars, histVars, batchVars, buildVars, downloadVars,
                   batch_size, beam, truth>>

\* _get_inputs_from_sequences called on held candidates
GetInputsFromSequences ==
    /\ Running("get_inputs")
    /\ LET o == get_inputs_from_sequences(sequences, beam, batch_size)
       IN /\ decoded' = [kind |-> "get_inputs", raised |-> o.raised]
          /\ inputs' = IF o.raised THEN inputs ELSE o.inputs
    /\ steps' = 1
    /\ UNCHANGED <<sysVars, augVars, histVars, batchVars, buildVars, downloadVars,
                   batch_size, beam, truth, sequences>>

\* _is_generation_finished called on a decoder input
IsGenerationFinished ==
    /\ Running("finished")
    /\ decoded' = [kind |-> "finished", raised |-> FALSE,
                   val |-> is_generation_finished(inputs)]
    /\ steps' = 1
    /\ UNCHANGED <<sysVars, augVars, histVars, batchVars, buildVars, downloadVars,
                   batch_size, beam, truth, inputs, sequences>>

NextDecode ==
    \/ ForcedDecode
    \/ GreedyStep
    \/ BeamStep
    \/ GetInputsFromSequences
    \/ IsGenerationFinished

SpecDecode == InitDecode /\ [][NextDecode]_vars

(***************************************************************************)
(* Decoding: the claims                                                    *)
(***************************************************************************)
DecodeRaised == decoded.kind # "none" /\ decoded.raised

\* every row holds the end token
EveryRowEnded(rows) ==
    \A j \in DOMAIN rows : \E i \in DOMAIN rows[j] : rows[j][i] = end_token_idx

\* the first n columns of every row
Columns(rows, n) == [j \in DOMAIN rows |-> SubSeq(rows[j], 1, n)]

\* C21: forced decoding of a response of length L feeds the decoder START
\* followed by the response without its last token, gives exactly L logit
\* positions per row, and the loss pairs position i with response[i].
C21_ForcedShift ==
    decoded.kind = "forced" =>
        /\ ~decoded.loss.raised
        /\ \A j \in DOMAIN truth :
            LET L == Len(truth[j])
            IN /\ Len(decoded.inputs[j]) = L
               /\ decoded.inputs[j][1] = start_token_idx
               /\ \A i \in 2..L : decoded.inputs[j][i] = truth[j][i - 1]
               /\ Len(decoded.logits[j]) = L
               /\ \A i \in 1..L :
                     /\ <<decoded.logits[j][i], truth[j][i]>> \in decoded.loss.pairs
                     /\ \A pr \in decoded.loss.pairs :
                           pr[1] = decoded.logits[j][i] => pr[2] = truth[j][i]

\* a forced decoding of two different responses, one of them padded
C21_Witness ==
    /\ decoded.kind = "forced"
    /\ batch_size = 2
    /\ truth[1] # truth[2]
    /\ \E i \in DOMAIN truth[1] : truth[1][i] = pad_token_idx
    /\ \A j \in DOMAIN truth : <<decoded.logits[j][2], truth[j][2]>> \in decoded.loss.scored

\* C22 as stated: START is the first decoder input token, is never a target
\* the conversation loss scores, and is never a token a decode step emits.
C22_StartNeverPredicted ==
    /\ decoded.kind = "forced" =>
          /\ \A j \in DOMAIN inputs : inputs[j][1] = start_token_idx
          /\ \A pr \in decoded.loss.scored : pr[2] # start_token_idx
    /\ pc = <<"decode", "greedy">> =>
          \A j \in DOMAIN inputs :
              /\ inputs[j][1] = start_token_idx
              /\ \A i \in 2..Len(inputs[j]) : inputs[j][i] # start_token_idx

\* C23: greedy decoding never runs more than response_truncate steps; it has
\* returned exactly when, after a step, every row holds the end token or the
\* step count is response_truncate, so it stops at the first such step and
\* at no other; it returns one logit position per step.
C23_GreedyStops ==
    pc = <<"decode", "greedy">> =>
        /\ steps <= ResponseTruncate
        /\ decoded.kind = "greedy" <=>
              (steps > 0 /\ (EveryRowEnded(inputs) \/ steps = ResponseTruncate))
        /\ decoded.kind = "greedy" =>
              /\ decoded.logits = steps
              /\ decoded.inputs = inputs
              /\ \A j \in DOMAIN inputs : Len(inputs[j]) = steps + 1
              /\ \A s \in 1..(steps - 1) : ~EveryRowEnded(Columns(inputs, s + 1))

\* greedy decoding of two rows stopped before the cap, at the step the
\* second of the rows emitted the end token
C23_Witness ==
    /\ decoded.kind = "greedy"
    /\ batch_size = 2
    /\ steps = 2
    /\ steps < ResponseTruncate
    /\ inputs[1][2] = end_token_idx
    /\ inputs[2][2] # end_token_idx
    /\ inputs[2][3] = end_token_idx

\* what _decode_greedy_with_kg can return: START and one token per step in
\* every row, stopped at the first step that left every row ended or at the
\* cap
IsGreedyOutput(rows) ==
    \E s \in 1..ResponseTruncate :
        /\ \A j \in DOMAIN rows :
              /\ Len(rows[j]) = s + 1
              /\ rows[j][1] = start_token_idx
        /\ EveryRowEnded(rows) \/ s = ResponseTruncate
        /\ \A t \in 1..(s - 1) : ~EveryRowEnded(Columns(rows, t + 1))

\* C24 as stated: with beam = 1, decode_beam_search_with_kg returns what
\* _decode_greedy_with_kg returns: the same tokens, length and stopping step.
C24_BeamOneIsGreedy ==
    (pc = <<"decode", "beam">> /\ beam = 1 /\ decoded.kind # "none") =>
        /\ ~decoded.raised
        /\ IsGreedyOutput(decoded.inputs)

\* C25 as stated: neither greedy decoding nor beam search raises; a call
\* that ends gives back the sequences accumulated so far.
C25_NoRaiseAtCap ==
    (pc[1] = "decode" /\ pc[2] \in {"greedy", "beam"}) =>
        /\ ~DecodeRaised
        /\ (steps = ResponseTruncate /\ ~EveryRowEnded(IF pc[2] = "greedy" THEN inputs ELSE inputs[1]))
              => decoded.kind # "none"

\* C26 as stated: after every step of the beam search each element holds
\* exactly `beam` candidates in non-increasing score order.
C26_BeamWidthConstant ==
    (pc = <<"decode", "beam">> /\ steps >= 1) =>
        /\ ~DecodeRaised
        /\ \A j \in DOMAIN sequences :
              /\ Len(sequences[j]) = beam
              /\ \A n \in 2..Len(sequences[j]) :
                    sequences[j][n - 1].score >= sequences[j][n].score

MaxBuildCalls == 4      \* SpecBuild: build() calls on the same path

Versions == {"", "v1", "v2"}

\* what the transfer of download() leaves: the file with the expected
\* content, the file with other content, an exception before any byte was
\* written, or an exception after the file was opened for writing
Transfers == {"good", "corrupt", "refused", "cut"}

\* check_build(path, version_string)
check_build(mk, version_string) ==
    IF version_string # ""
       THEN IF mk = <<>> THEN FALSE
            ELSE Len(mk) > 1 /\ mk[2] = version_string
       ELSE mk # <<>>

\* a mark_done that writes the time stamp only
mark_done_timestamp_only(version_string) == <<"today">>

\* mark_done(path, version_string): the lines it writes to the marker
mark_done(version_string) ==
    <<"today">> \o (IF version_string # "" THEN <<version_string>> ELSE <<>>)

\* download(url, path, fname) as download_file uses it: nothing is
\* transferred when the file is there already
download_to(file, net) ==
    IF file # "absent" THEN [raised |-> FALSE, transferred |-> FALSE, file |-> file]
    ELSE CASE net = "refused" -> [raised |-> TRUE, transferred |-> TRUE, file |-> "absent"]
           [] net = "cut" -> [raised |-> TRUE, transferred |-> TRUE, file |-> "corrupt"]
           [] OTHER -> [raised |-> FALSE, transferred |-> TRUE, file |-> net]

\* DownloadableFile.download_file: download, checksum, then untar, which
\* deletes the archive it has unpacked
download_file(file, net, zipped) ==
    LET d == download_to(file, net)
    IN IF d.raised THEN d
       ELSE IF d.file # "good" THEN [d EXCEPT !.raised = TRUE]
       ELSE IF zipped THEN [d EXCEPT !.file = "absent"]
       ELSE d

\* build(dpath, dfile, version)
build(mk, file, version, net, zipped) ==
    IF check_build(mk, version)
       THEN [marker |-> mk, outfile |-> file, removed |-> FALSE,
             transferred |-> FALSE, raised |-> FALSE, marked |-> FALSE]
       ELSE LET removed == check_build(mk, "")
                d == download_file(IF removed THEN "absent" ELSE file, net, zipped)
            IN [marker |-> IF d.raised THEN (IF removed THEN <<>> ELSE mk)
                           ELSE mark_done(version),
                outfile |-> d.file, removed |-> removed,
                transferred |-> d.transferred, raised |-> d.raised,
                marked |-> ~d.raised]

\* build() is called on a path nothing has been built in
InitBuild ==
    /\ pc = <<"build", "idle">>
    /\ InitSystem
    /\ AugIdle
    /\ HistIdle
    /\ BatchIdle
    /\ DecIdle
    /\ FilesIdle

\* one call of build(dpath, dfile, version)
Build(version, net, zipped) ==
    /\ pc = <<"build", "idle">>
    /\ n_builds < MaxBuildCalls
    /\ LET b == build(marker, outfile, version, net, zipped)
       IN /\ marker' = b.marker
          /\ outfile' = b.outfile
          /\ marked_with' = IF b.marked THEN version
                            ELSE IF b.removed THEN "never" ELSE marked_with
          /\ built' = [kind |-> "build", version |-> version,
                       was_built |-> check_build(marker, version),
                       had_marker |-> marker # <<>>,
                       removed |-> b.removed, transferred |-> b.transferred,
                       raised |-> b.raised, marked |-> b.marked]
    /\ n_builds' = n_builds + 1
    /\ UNCHANGED <<sysVars, augVars, histVars, batchVars, decVars, downloadVars>>

NextBuild ==
    \E version \in Versions : \E net \in Transfers : \E zipped \in BOOLEAN :
        Build(version, net, zipped)

SpecBuild == InitBuild /\ [][NextBuild]_vars

\* C29: a path counts as built for a version exactly when the last mark_done
\* on it, since it was last removed, was given that version, and as built
\* for no version whenever the marker exists; build() transfers only when
\* the path is not built for the version asked for, removes a path that has
\* a marker first, marks the path only after download and checksum went
\* through, and leaves the path built for that version, so that the next
\* build() with it transfers nothing.
C29_BuildMarker ==
    /\ \A v \in Versions \ {""} : check_build(marker, v) <=> marked_with = v
    /\ check_build(marker, "") <=> marker # <<>>
    /\ marker # <<>> <=> marked_with # "never"
    /\ built.kind = "build" =>
          /\ built.was_built =>
                ~built.transferred /\ ~built.removed /\ ~built.marked /\ ~built.raised
          /\ built.transferred => ~built.was_built
          /\ built.removed <=> (~built.was_built /\ built.had_marker)
          /\ built.marked <=> (~built.was_built /\ ~built.raised)
          /\ built.marked => marked_with = built.version
          /\ built.raised => ~check_build(marker, built.version)
          /\ ~built.raised => check_build(marker, built.version)

\* a second build() with the version the path was built for: no transfer
C29_Witness ==
    /\ built.kind = "build"
    /\ n_builds = 2
    /\ built.version = "v1"
    /\ built.was_built
    /\ marked_with = "v1"
    /\ ~built.transferred

(***************************************************************************)
(* download.py: download(url, path, fname, redownload, num_retries)        *)
(***************************************************************************)
MaxRetries == 2         \* SpecDownload: largest num_retries
MaxBytes == 2           \* SpecDownload: largest Content-Length and transfer
MaxAttempts == 4        \* SpecDownload: loop iterations followed

\* what one pass through the try block meets: make_request raises a
\* ConnectionError; write_chunks raises a ConnectionError or a ReadTimeout
\* after the response was received; or the transfer ends without an
\* exception, `got` bytes written for an announced length (-1: no
\* Content-Length header)
Events ==
    [kind : {"refused"}, length : {None}, got : {0}]
    \cup [kind : {"timeout"}, length : (0 - 1)..MaxBytes, got : {0}]
    \cup [kind : {"ended"}, length : (0 - 1)..MaxBytes, got : 0..MaxBytes]

\* exp_backoff = [2 ** r for r in reversed(range(num_retries))]
exp_backoff(num_retries) == [i \in 0..(num_retries - 1) |-> 2 ^ (num_retries - 1 - i)]

\* handle_retry: the seconds slept
handle_retry(left, num_retries) ==
    IF left > 0 THEN <<exp_backoff(num_retries)[left]>> ELSE <<>>

\* validate_download
validate_download(size, got) ==
    IF got < size THEN "RuntimeError" ELSE "returned"

\* finally: if response: response.close()
\* reading a local name nothing was assigned to raises UnboundLocalError
FinallyClose(r) ==
    IF r = "unbound" THEN [raised |-> TRUE, resp |-> r]
    ELSE [raised |-> FALSE, resp |-> "closed"]

\* download() has not been called
InitDownload ==
    /\ pc = <<"download", "idle">>
    /\ InitSystem
    /\ AugIdle
    /\ HistIdle
    /\ BatchIdle
    /\ DecIdle
    /\ FilesIdle

\* download() is called: it returns at once when the file is there and
\* redownload is off; with no retries allowed the loop is not entered
DownloadCall(exists, redownload, num_retries) ==
    /\ pc = <<"download", "idle">>
    /\ pc' = <<"download", "called">>
    /\ retry' = num_retries
    /\ outcome' = [state |-> IF exists /\ ~redownload THEN "skipped"
                             ELSE IF num_retries <= 0 THEN "RuntimeError"
                             ELSE "running",
                   num_retries |-> num_retries, failures |-> 0, waits |-> <<>>]
    /\ UNCHANGED <<epoch, batchIdx, events, requires_grad, optimizer, rec_metrics,
                   best_valid, drop_cnt, submitted, last,
                   augVars, histVars, batchVars, decVars, buildVars,
                   resp, done, total_size, attempts>>

\* one iteration of `while download and retry > 0`, with the code after the
\* loop when the iteration leaves it
Attempt(ev) ==
    /\ pc = <<"download", "called">>
    /\ outcome.state = "running"
    /\ attempts < MaxAttempts
    /\ attempts' = attempts + 1
    /\ LET failed == ev.kind # "ended"
           bound == IF ev.kind = "refused" THEN resp ELSE "open"
           left == IF failed THEN retry - 1 ELSE retry
           fin == FinallyClose(bound)
           complete == ~failed /\ ev.got >= ev.length
       IN /\ retry' = left
          /\ resp' = fin.resp
          /\ total_size' = IF ev.kind = "refused" THEN total_size ELSE ev.length
          /\ done' = IF failed THEN done ELSE ev.got
          /\ outcome' =
                [outcome EXCEPT
                    !.failures = IF failed THEN @ + 1 ELSE @,
                    !.waits = IF failed THEN @ \o handle_retry(left, outcome.num_retries)
                              ELSE @,
                    !.state = IF fin.raised THEN "UnboundLocalError"
                              ELSE IF complete THEN validate_download(ev.length, ev.got)
                              ELSE IF left <= 0 THEN "RuntimeError"
                              ELSE "running"]
    /\ UNCHANGED <<sysVars, augVars, histVars, batchVars, decVars, buildVars>>

NextDownload ==
    \/ \E exists \in BOOLEAN : \E redownload \in BOOLEAN :
         \E num_retries \in 0..MaxRetries : DownloadCall(exists, redownload, num_retries)
    \/ \E ev \in Events : Attempt(ev)

SpecDownload == InitDownload /\ [][NextDownload]_vars

\* C30 as stated: download() ends in one of two ways, a return after a
\* complete transfer or a RuntimeError after at most num_retries connection
\* failures, each failure before the last followed by a wait; a connection
\* failure on any attempt is retried, never another error, and the loop runs
\* no more often than the failures allow.
C30_DownloadOutcomes ==
    pc = <<"download", "called">> =>
        /\ outcome.state \in {"running", "skipped", "returned", "RuntimeError"}
        /\ outcome.state = "returned" => done >= total_size
        /\ outcome.state = "RuntimeError" =>
              outcome.failures = outcome.num_retries
        /\ outcome.failures <= outcome.num_retries
        /\ attempts <= outcome.failures + 1

=============================================================================
